---- MODULE Spec2Model ----
(***************************************************************************)
(* Model of the terminal file browser src/mes/main.py.                     *)
(*                                                                         *)
(* Characters and keys are their integer codes, as curses and ord() give   *)
(* them.  A name is a sequence of character codes, a path is a sequence of *)
(* names (the root directory is the empty path).  The filesystem is a      *)
(* function from the existing paths to DIR or to the content of a file.    *)
(* A state of Spec is the program blocked in stdscr.getch() (line 722):    *)
(* every action is one loop iteration, from the event read there to the    *)
(* next frame drawn.  A size of the screen is <<rows, columns>>; a text on *)
(* the screen is the number of its characters.                             *)
(***************************************************************************)
EXTENDS Integers, Sequences, FiniteSets, TLC

VARIABLES
    fs,               \* the filesystem: path -> DIR or file content
    listdir_order,    \* the order in which the OS enumerates each directory it has
                      \* enumerated and that has not changed since
    show_hidden,      \* CONFIG['show_hidden']
    path,             \* main: path
    files,            \* main: files (the active listing)
    all_files,        \* main: all_files
    search_results,   \* main: search_results
    current_idx,      \* main: current_idx
    offset,           \* main: offset
    search_mode,      \* main: search_mode
    search_query,     \* main: search_query
    last_click_age,   \* time.time() - last_click_time when line 910 last read it, in
                      \* ticks, saturating
    last_click_idx,   \* main: last_click_idx
    clicked_idx,      \* main: clicked_idx
    click_areas,      \* main: click_areas of the frame on screen
    term_h,           \* stdscr.getmaxyx()[0] of the frame on screen
    term_w,           \* stdscr.getmaxyx()[1] of the frame on screen
    resizes,          \* the sizes the user may still give the terminal
    pc,               \* "run", "quit" (break), "interrupted" (KeyboardInterrupt in getch),
                      \* "crash" (uncaught Exception) or "keyboard_interrupt" (uncaught
                      \* KeyboardInterrupt raised in a handler)
    ev,               \* the event the last iteration handled, with its popup inputs
    pre_search,       \* history: the listing when '/' opened the last search session
    created,          \* history: the last successful 'n' create, until the directory view changes
    ops_left,         \* filesystem mutations the user may still request
    srch,             \* SpecSearch: inputs and result of one search_files_recursive call
    lay,              \* SpecLayout: inputs and result of one draw_files call
    call              \* one call of another function: its name, inputs and result

vars == <<fs, listdir_order, show_hidden, path, files, all_files, search_results,
          current_idx, offset, search_mode, search_query, last_click_age,
          last_click_idx, clicked_idx, click_areas, term_h, term_w, resizes, pc, ev,
          pre_search, created, ops_left, srch, lay, call>>

mainVars == <<fs, listdir_order, show_hidden, path, files, all_files, search_results,
          current_idx, offset, search_mode, search_query, last_click_age,
          last_click_idx, clicked_idx, click_areas, term_h, term_w, resizes, pc, ev,
          pre_search, created, ops_left>>

(***************************************************************************)
(* Bounds of the model.                                                    *)
(***************************************************************************)
MaxHeight == 8        \* the tallest terminal
MaxQueryLen == 2      \* longest search query typed
MaxOps == 1           \* filesystem mutations per run of SpecFiles
MaxTreeDepth == 5     \* SpecSearch: deepest directory chain
MaxResultsBound == 3  \* SpecSearch: max_results ranges over 0..MaxResultsBound
MaxLayoutLen == 4     \* SpecLayout: longest listing
MaxMenuKeys == 2      \* keys read by one context menu
MaxPreviewExtra == 2  \* SpecPreview: visible entries beyond preview_max_lines
MaxPreviewHidden == 2 \* SpecPreview: hidden entries of the directory
MaxActionKeys == 1    \* SpecSearchMode: action keys typed into one query
MaxLinkChain == 1     \* SpecSearchSteps: directories between the root and a link back to it
RecursionLimit == 6   \* SpecSearchSteps: nested calls the interpreter allows

(***************************************************************************)
(* Program constants.                                                      *)
(***************************************************************************)
search_max_depth == 3
default_max_results == 100
sort_dirs_first == TRUE
preview_max_lines == 50
KEY_MOUSE == 409
KEY_RESIZE == 410
KEY_UP == 259
KEY_DOWN == 258
KEY_BACKSPACE == 263
KEY_DC == 330
KEY_ENTER == 343
KEY_F2 == 266
KEY_ESC == 27
DoubleClickTicks == 5
FeedbackTicks == 3
WheelStep == 3
PaneMargin == 4
FirstRow == 2
MenuOptions == 6
popup_h == 5
popup_cols == 60
menu_h == MenuOptions + 2
menu_w == 25
help_rows == 22
help_cols == 65
properties_rows == 18

DIR == -1
CH_DOT == 46
CH_SLASH == 47

Min(a, b) == IF a < b THEN a ELSE b
Max(a, b) == IF a > b THEN a ELSE b

(***************************************************************************)
(* Strings.                                                                *)
(***************************************************************************)
\* a lower() that leaves every character as it is
Lower_asis(s) == s
\* str.lower() on ASCII
Lower(s) == [i \in 1..Len(s) |-> IF s[i] >= 65 /\ s[i] <= 90 THEN s[i] + 32 ELSE s[i]]

\* needle in hay
Contains(hay, needle) ==
    \E i \in 0..(Len(hay) - Len(needle)) : SubSeq(hay, i + 1, i + Len(needle)) = needle

\* str.startswith('.')
StartsWithDot(s) == Len(s) > 0 /\ s[1] = CH_DOT

\* str.isspace() of one character: the characters str.strip() removes
IsSpace(c) ==
    \/ c \in 9..13 \/ c \in 28..32
    \/ c \in {133, 160, 5760, 8232, 8233, 8239, 8287, 12288}
    \/ c \in 8192..8202

RECURSIVE LStrip(_)
LStrip(s) == IF s # <<>> /\ IsSpace(Head(s)) THEN LStrip(Tail(s)) ELSE s

RECURSIVE RStrip(_)
RStrip(s) == IF s # <<>> /\ IsSpace(s[Len(s)]) THEN RStrip(SubSeq(s, 1, Len(s) - 1)) ELSE s

\* str.strip()
Strip(s) == RStrip(LStrip(s))

\* s < t for Python strings: lexicographic by code point
RECURSIVE StrLess(_, _)
StrLess(s, t) ==
    IF s = <<>> THEN t # <<>>
    ELSE IF t = <<>> THEN FALSE
    ELSE IF s[1] < t[1] THEN TRUE
    ELSE IF s[1] > t[1] THEN FALSE
    ELSE StrLess(Tail(s), Tail(t))

\* sorted(S) for a collection of distinct strings
RECURSIVE Sorted(_)
Sorted(S) ==
    IF S = {} THEN <<>>
    ELSE LET m == CHOOSE x \in S : \A y \in S : x = y \/ StrLess(x, y)
         IN <<m>> \o Sorted(S \ {m})

\* the arrangement number k of the sequence s: s itself for k = 0; the last
\* element stands k % Len(s) places before the end of the arrangement number
\* k \div Len(s) of the elements before it
RECURSIVE Arrangement(_, _)
Arrangement(s, k) ==
    IF s = <<>> \/ k = 0 THEN s
    ELSE LET n == Len(s)
             front == Arrangement(SubSeq(s, 1, n - 1), k \div n)
             at == (n - 1) - (k % n)
         IN SubSeq(front, 1, at) \o <<s[n]>> \o SubSeq(front, at + 1, n - 1)

RECURSIVE SplitFrom(_, _, _)
SplitFrom(s, cur, sep) ==
    IF s = <<>> THEN <<cur>>
    ELSE IF Head(s) = sep THEN <<cur>> \o SplitFrom(Tail(s), <<>>, sep)
    ELSE SplitFrom(Tail(s), Append(cur, Head(s)), sep)

\* s.split(sep)
Split(s, sep) == SplitFrom(s, <<>>, sep)

SeqToSet(s) == {s[i] : i \in 1..Len(s)}

(***************************************************************************)
(* The filesystem.                                                         *)
(***************************************************************************)
Exists(f, p) == p \in DOMAIN f
IsDir(f, p) == p \in DOMAIN f /\ f[p] = DIR
IsPrefix(p, q) == Len(p) <= Len(q) /\ SubSeq(q, 1, Len(p)) = p
Parent(p) == IF p = <<>> THEN <<>> ELSE SubSeq(p, 1, Len(p) - 1)
ChildNames(f, p) == {q[Len(q)] : q \in {r \in DOMAIN f : Len(r) = Len(p) + 1 /\ IsPrefix(p, r)}}

\* The order in which the OS enumerates directories: ord maps a directory to
\* the number of the arrangement of its names, counted from the ascending one;
\* a directory ord does not mention is enumerated in ascending order.
\* Uniform(f, k): every directory of f enumerated in its arrangement number k.
Uniform(f, k) == [p \in {q \in DOMAIN f : f[q] = DIR} |-> k]

\* the numbers of the arrangements of n names: every order of them has one
RECURSIVE Ranks(_)
Ranks(n) == IF n <= 1 THEN {0} ELSE {n * k + j : k \in Ranks(n - 1), j \in 0..(n - 1)}

\* every way the OS can enumerate the directories of DOMAIN cnt, cnt[p] being
\* the number of names in p: each directory in an order of its own
RECURSIVE Orders(_)
Orders(cnt) ==
    IF DOMAIN cnt = {} THEN {[p \in {} |-> 0]}
    ELSE LET d == CHOOSE p \in DOMAIN cnt : TRUE
             others == Orders([p \in DOMAIN cnt \ {d} |-> cnt[p]])
         IN {(d :> k) @@ o : k \in Ranks(cnt[d]), o \in others}

\* the orders of the directories of f at or below the directory r
OrdersBelow(f, r) ==
    Orders([p \in {q \in DOMAIN f : f[q] = DIR /\ IsPrefix(r, q)} |->
               Cardinality(ChildNames(f, p))])

\* os.listdir(p): the names in p, in the order the OS gives them
listdir(f, ord, p) ==
    Arrangement(Sorted(ChildNames(f, p)), IF p \in DOMAIN ord THEN ord[p] ELSE 0)

\* the components without the empty ones that trailing slashes leave at the end
RECURSIVE StripSlashes(_)
StripSlashes(comps) ==
    IF comps # <<>> /\ comps[Len(comps)] = <<>>
    THEN StripSlashes(SubSeq(comps, 1, Len(comps) - 1))
    ELSE comps

\* The kernel's walk from dir over the components of a path.  ok is FALSE when a
\* component on the way is no directory, or when the last component is "." or
\* ".." (every mutation fails on those).
RECURSIVE Walk(_, _, _)
Walk(f, dir, comps) ==
    LET c == Head(comps)
    IN IF Len(comps) = 1
       THEN IF c = <<>> \/ c = <<CH_DOT>> \/ c = <<CH_DOT, CH_DOT>>
            THEN [ok |-> FALSE, path |-> dir]
            ELSE [ok |-> IsDir(f, dir), path |-> Append(dir, c)]
       ELSE IF ~IsDir(f, dir) THEN [ok |-> FALSE, path |-> dir]
       ELSE IF c = <<>> \/ c = <<CH_DOT>> THEN Walk(f, dir, Tail(comps))
       ELSE IF c = <<CH_DOT, CH_DOT>> THEN Walk(f, Parent(dir), Tail(comps))
       ELSE Walk(f, Append(dir, c), Tail(comps))

\* The path a typed name denotes: os.path.join(base, typed), then the walk over
\* its components.  slash tells that the name ends with a slash: the path
\* then stands for a directory only.  A name of slashes alone is the root.
Resolve(f, base, typed) ==
    LET comps == Split(typed, CH_SLASH)
        named == StripSlashes(comps)
        from == IF typed # <<>> /\ typed[1] = CH_SLASH THEN <<>> ELSE base
    IN IF named = <<>>
       THEN [ok |-> FALSE, path |-> from, slash |-> TRUE]
       ELSE [ok |-> Walk(f, from, named).ok, path |-> Walk(f, from, named).path,
             slash |-> Len(named) < Len(comps)]

Without(f, p) == [q \in {r \in DOMAIN f : ~IsPrefix(p, r)} |-> f[q]]
With(f, p, v) == [q \in DOMAIN f \cup {p} |-> IF q = p THEN v ELSE f[q]]
Moved(f, old, new) ==
    LET kept == {r \in DOMAIN f : ~IsPrefix(old, r) /\ ~IsPrefix(new, r)}
        sub == {r \in DOMAIN f : IsPrefix(old, r)}
        To(r) == new \o SubSeq(r, Len(old) + 1, Len(r))
    IN [q \in kept \cup {To(r) : r \in sub} |->
           IF q \in kept THEN f[q]
           ELSE f[CHOOSE r \in sub : To(r) = q]]

\* create_file_or_dir(os.path.join(base, typed), is_file)
create_file_or_dir(f, base, typed, is_file) ==
    LET r == Resolve(f, base, typed)
    IN IF ~r.ok THEN [ok |-> FALSE, fs |-> f]
       ELSE IF is_file
       THEN IF r.slash \/ IsDir(f, r.path) THEN [ok |-> FALSE, fs |-> f]
            ELSE [ok |-> TRUE, fs |-> With(f, r.path, 0)]
       ELSE IF Exists(f, r.path) THEN [ok |-> FALSE, fs |-> f]
            ELSE [ok |-> TRUE, fs |-> With(f, r.path, DIR)]

\* rename_file_or_dir(old, os.path.join(base, typed)), os.rename as POSIX defines it
rename_file_or_dir(f, old, base, typed) ==
    LET r == Resolve(f, base, typed)
        new == r.path
    IN IF ~r.ok \/ ~Exists(f, old) THEN [ok |-> FALSE, fs |-> f]
       ELSE IF r.slash /\ ~IsDir(f, old) THEN [ok |-> FALSE, fs |-> f]
       ELSE IF new = old THEN [ok |-> TRUE, fs |-> f]
       ELSE IF IsPrefix(old, new) THEN [ok |-> FALSE, fs |-> f]
       ELSE IF ~Exists(f, new) THEN [ok |-> TRUE, fs |-> Moved(f, old, new)]
       ELSE IF IsDir(f, old) /\ ~IsDir(f, new) THEN [ok |-> FALSE, fs |-> f]
       ELSE IF ~IsDir(f, old) /\ IsDir(f, new) THEN [ok |-> FALSE, fs |-> f]
       ELSE IF IsDir(f, new) /\ ChildNames(f, new) # {} THEN [ok |-> FALSE, fs |-> f]
       ELSE [ok |-> TRUE, fs |-> Moved(f, old, new)]

\* delete_file_or_dir(p): shutil.rmtree for a directory, os.remove otherwise.
\* rmtree empties the directory before it removes it: on the root it fails at the
\* end, with everything below gone.
delete_file_or_dir(f, p) ==
    IF IsDir(f, p)
    THEN IF p = <<>> THEN [ok |-> FALSE, fs |-> [q \in {<<>>} |-> DIR]]
         ELSE [ok |-> TRUE, fs |-> Without(f, p)]
    ELSE IF Exists(f, p) THEN [ok |-> TRUE, fs |-> Without(f, p)]
    ELSE [ok |-> FALSE, fs |-> f]

(***************************************************************************)
(* Listing entries: a plain name, resolved against the current directory,  *)
(* or a (display_path, full_path) tuple produced by the search.            *)
(***************************************************************************)
PlainEntry(n) == [tuple |-> FALSE, display |-> <<n>>, full |-> <<>>]
TupleEntry(d, p) == [tuple |-> TRUE, display |-> d, full |-> p]
Plain(names) == [i \in 1..Len(names) |-> PlainEntry(names[i])]


\* list_dir(p) under CONFIG['show_hidden'] = sh
\* directories first, each group in the order the OS gave
list_dir_unsorted(f, ord, sh, p) ==
    LET listed == listdir(f, ord, p)
        entries == IF ~sh THEN SelectSeq(listed, LAMBDA e : ~StartsWithDot(e)) ELSE listed
    IN SelectSeq(entries, LAMBDA e : IsDir(f, Append(p, e)))
       \o SelectSeq(entries, LAMBDA e : ~IsDir(f, Append(p, e)))
list_dir(f, ord, sh, p) ==
    LET listed == listdir(f, ord, p)
        entries == IF ~sh THEN SelectSeq(listed, LAMBDA e : ~StartsWithDot(e)) ELSE listed
        dirs == SelectSeq(entries, LAMBDA e : IsDir(f, Append(p, e)))
        nondirs == SelectSeq(entries, LAMBDA e : ~IsDir(f, Append(p, e)))
    IN IF sort_dirs_first
       THEN Sorted(SeqToSet(dirs)) \o Sorted(SeqToSet(nondirs))
       ELSE Sorted(SeqToSet(entries))

(***************************************************************************)
(* search_files_recursive.  acc.results is the results list the nested     *)
(* function appends to; acc.listed records the directories os.listdir was  *)
(* called on.  c holds what the closure reads: fs, ord, show_hidden,       *)
(* query_lower, max_results.                                               *)
(***************************************************************************)
\* a cap tested one match too late
CapReached_late(results, max_results) == Len(results) > max_results
\* len(results) >= max_results (lines 168 and 174)
CapReached(results, max_results) == Len(results) >= max_results

\* a depth test that never stops the descent
TooDeep_never(depth) == depth < 0
\* a depth test that lets one more level through
TooDeep_late(depth) == depth > search_max_depth + 1
\* depth > CONFIG['search_max_depth'] (line 168)
TooDeep(depth) == depth > search_max_depth

RECURSIVE search_in_dir(_, _, _, _, _)
RECURSIVE search_entries(_, _, _, _, _, _)

\* the for loop of search_in_dir over the entries still to visit
search_entries(c, entries, current_path, relative_path, depth, acc) ==
    IF entries = <<>> THEN acc
    ELSE IF CapReached(acc.results, c.max_results) THEN acc
    ELSE LET entry == Head(entries)
             full_path == Append(current_path, entry)
             display_path == Append(relative_path, entry)
             acc1 == IF Contains(Lower(entry), c.query_lower)
                     THEN [acc EXCEPT !.results = Append(@, TupleEntry(display_path, full_path))]
                     ELSE acc
             acc2 == IF IsDir(c.fs, full_path)
                     THEN search_in_dir(c, full_path, display_path, depth + 1, acc1)
                     ELSE acc1
         IN IF ~c.show_hidden /\ StartsWithDot(entry)
            THEN search_entries(c, Tail(entries), current_path, relative_path, depth, acc)
            ELSE search_entries(c, Tail(entries), current_path, relative_path, depth, acc2)

search_in_dir(c, current_path, relative_path, depth, acc) ==
    IF CapReached(acc.results, c.max_results) \/ TooDeep(depth) THEN acc
    ELSE IF ~IsDir(c.fs, current_path) THEN acc
    ELSE search_entries(c, listdir(c.fs, c.ord, current_path), current_path, relative_path,
                        depth, [acc EXCEPT !.listed = @ \cup {current_path}])

search_files_recursive(f, ord, sh, root_path, query, max_results) ==
    search_in_dir([fs |-> f, ord |-> ord, show_hidden |-> sh, query_lower |-> Lower(query),
                   max_results |-> max_results],
                  root_path, <<>>, 0, [results |-> <<>>, listed |-> {}])

(***************************************************************************)
(* The screen.  A text is the number of its characters, wide telling that  *)
(* it begins with an icon two cells wide.                                  *)
(***************************************************************************)
\* len(s[:m]) for len(s) = n
Sliced(n, m) == IF m >= 0 THEN Min(n, m) ELSE Max(0, n + m)

\* len(l[a:b]) for len(l) = n
SliceLen(n, a, b) ==
    LET lo == IF a < 0 THEN Max(0, n + a) ELSE Min(n, a)
        hi == IF b < 0 THEN Max(0, n + b) ELSE Min(n, b)
    IN Max(0, hi - lo)

\* the characters addnstr(y, x, s, n) writes of len(s) = chars: all of them for n < 0
Written(chars, n) == IF n >= 0 THEN Min(chars, n) ELSE chars

\* len(str(n)) for n >= 0
RECURSIVE Digits(_)
Digits(n) == IF n < 10 THEN 1 ELSE 1 + Digits(n \div 10)

\* round(a / b, 0) as '.1f' rounds: to the nearest, ties to even
RoundHalfEven(a, b) ==
    LET q == a \div b
        r == a % b
    IN IF 2 * r > b \/ (2 * r = b /\ q % 2 = 1) THEN q + 1 ELSE q

\* len(format_size(size_bytes)) (lines 195-204): the digits and the unit below
\* 1024, else one decimal and the unit
format_size(size_bytes) ==
    LET unit == IF size_bytes < 1024 * 1024 THEN 1024
                ELSE IF size_bytes < 1024 * 1024 * 1024 THEN 1024 * 1024
                ELSE 1024 * 1024 * 1024
    IN IF size_bytes < 1024 THEN Digits(size_bytes) + 1
       ELSE Digits(RoundHalfEven(size_bytes * 10, unit) \div 10) + 3

\* win.addstr(y, x, s) and win.addnstr(y, x, s, n) on a window of win_h rows
\* and win_w columns, chars characters being written: curses.error when (y, x)
\* is outside the window or the text reaches the lower right corner.  An icon
\* that does not fit the rest of its row goes to the next row.
addstr_raises(win_h, win_w, y, x, chars, wide) ==
    IF y < 0 \/ y >= win_h \/ x < 0 \/ x >= win_w THEN TRUE
    ELSE IF chars = 0 THEN FALSE
    ELSE IF wide
    THEN (IF x + 2 > win_w THEN (y + 1) * win_w ELSE y * win_w + x) + 2 + (chars - 1)
            >= win_h * win_w
    ELSE y * win_w + x + chars >= win_h * win_w

\* win.addnstr(y, x, s, n) for the text s = [chars, wide], chars characters
\* long and beginning with an icon or not: the n characters of a limit that
\* ends before the last row's end stay clear of the corner whatever s is
addnstr_raises(win_h, win_w, y, x, s, n) ==
    IF y < 0 \/ y >= win_h \/ x < 0 \/ x >= win_w THEN TRUE
    ELSE IF n >= 0 /\ (y + 1) * win_w + n + 1 < win_h * win_w THEN FALSE
    ELSE addstr_raises(win_h, win_w, y, x, Written(s.chars, n),
                       s.wide /\ Written(s.chars, n) > 0)

\* curses.newwin(nlines, ncols, begin_y, begin_x) raises curses.error when the
\* window would begin above or left of the screen or have a negative extent
newwin_raises(nlines, ncols, begin_y, begin_x) ==
    begin_y < 0 \/ begin_x < 0 \/ nlines < 0 \/ ncols < 0

\* the rows (columns) of a window made with n of them from begin on: 0 asks
\* for all that are left
Extent(n, screen, begin) == IF n > 0 THEN n ELSE screen - begin

\* the window of a popup of nlines by ncols centred on a screen of h by w
\* (lines 52, 72; 311, 316; 573, 575; 597, 599)
popup_win(h, w, nlines, ncols) ==
    LET start_y == (h - nlines) \div 2
        start_x == (w - ncols) \div 2
    IN [raised |-> newwin_raises(nlines, ncols, start_y, start_x),
        h |-> Extent(nlines, h, start_y), w |-> Extent(ncols, w, start_x)]

(***************************************************************************)
(* draw_files: the scroll offset and the click map of a frame on a screen  *)
(* of h rows and w columns.                                                *)
(***************************************************************************)
NoClickAreas == [y \in {} |-> 0]

\* lines 430-433: the offset moved just far enough to show current_idx
ScrollOffset(idx, off, max_visible) ==
    IF idx < off THEN idx
    ELSE IF idx >= off + max_visible THEN idx - max_visible + 1
    ELSE off

\* len(title_text) (lines 414-418)
title_text(f, sh, p, fl, sm) ==
    LET base == IF p = <<>> THEN 1 ELSE Len(p[Len(p)])
        hidden_count == IF IsDir(f, p)
                        THEN Cardinality({nm \in ChildNames(f, p) : StartsWithDot(nm)})
                        ELSE 0
    IN IF sm THEN 16
       ELSE IF fl # <<>> /\ hidden_count > 0 /\ ~sh THEN 2 + base + 11 + Digits(hidden_count)
       ELSE 2 + base

\* t[:width - 3] + "..."
Truncated(t, width) ==
    LET keep == Sliced(t.chars, width - 3)
    IN [chars |-> keep + 3, wide |-> t.wide /\ keep > 0]

\* lines 473-476: the name cut to name_width, then padded to it and followed
\* by the size.  A negative name_width makes the format of line 476 raise
\* ValueError, which the bare except drops once the name is cut.
sized_display(shown, size_str, left_width) ==
    LET name_width == left_width - size_str - 8
        cut == IF shown.chars > name_width THEN Truncated(shown, name_width) ELSE shown
    IN IF name_width < 0 THEN cut
       ELSE [chars |-> Max(cut.chars, name_width) + 1 + Max(size_str, 6), wide |-> cut.wide]

\* lines 467-478: the icon and the name of the entry at full_path, base
\* characters long, with the size of a file; os.path.getsize of an entry that
\* is gone raises, which the bare except drops
file_display(f, full_path, base, left_width) ==
    IF IsDir(f, full_path) \/ ~Exists(f, full_path) THEN [chars |-> 2 + base, wide |-> TRUE]
    ELSE sized_display([chars |-> 2 + base, wide |-> TRUE], format_size(f[full_path]),
                       left_width)

\* lines 480-482: display cut to max_display_width
row_display(display, max_display_width) ==
    IF display.chars > max_display_width THEN Truncated(display, max_display_width)
    ELSE display

\* draw_files(stdscr, path, files, current_idx, offset, search_mode, clicked_idx)
\* on the filesystem f: a curses.error of the title or the rule returns the old
\* offset, one of a row the new offset, both with an empty click map
draw_files(f, sh, h, w, p, fl, idx, off, sm, clicked) ==
    LET left_width == w \div 2
        max_visible == h - PaneMargin
        o == ScrollOffset(idx, off, max_visible)
        shown == {i \in 0..(SliceLen(Len(fl), o, o + max_visible) - 1) : i + FirstRow < h - 2}
        entry_path(e) == IF e.tuple THEN e.full ELSE p \o e.display
        basename(e) == e.display[Len(e.display)]
        row_raises(i) ==
            \/ o + i = clicked
               /\ addnstr_raises(h, w, i + FirstRow, 2, [chars |-> 1, wide |-> FALSE], 1)
            \/ addnstr_raises(h, w, i + FirstRow, 2,
                              row_display(file_display(f, entry_path(fl[o + i + 1]),
                                                       Len(basename(fl[o + i + 1])),
                                                       left_width),
                                          left_width - 4),
                              left_width - 4)
    IN IF \/ addnstr_raises(h, w, 0, 1,
                            [chars |-> Sliced(title_text(f, sh, p, fl, sm), left_width - 2),
                             wide |-> TRUE],
                            left_width - 2)
          \/ addnstr_raises(h, w, 1, 1, [chars |-> Max(0, left_width - 3), wide |-> FALSE],
                            left_width - 3)
       THEN [offset |-> off, click_areas |-> NoClickAreas]
       ELSE IF fl = <<>> THEN [offset |-> off, click_areas |-> NoClickAreas]
       ELSE IF \E i \in shown : row_raises(i)
       THEN [offset |-> o, click_areas |-> NoClickAreas]
       ELSE [offset |-> o,
             click_areas |-> [y \in {i + FirstRow : i \in shown} |-> (y - FirstRow) + o]]

(***************************************************************************)
(* Popups.  What a popup reads is a record: interrupted when SIGINT arrives *)
(* while it waits (the read raises KeyboardInterrupt), else the bytes of   *)
(* getstr, the key of getch or the keys of the menu loop.  exc is the      *)
(* exception a call raises, "none" when it returns.                        *)
(***************************************************************************)
\* curses.wrapper turned echo off and main (line 693) hid the cursor
MainTerminal == [cursor |-> 0, echo |-> FALSE]

IsContinuation(b) == b \in 128..191

\* the number of bytes of the UTF-8 sequence a lead byte opens, 0 when the byte
\* cannot open one
Utf8Length(b) ==
    IF b < 128 THEN 1
    ELSE IF b \in 194..223 THEN 2
    ELSE IF b \in 224..239 THEN 3
    ELSE IF b \in 240..244 THEN 4
    ELSE 0

\* the code point of the sequence bs, -1 when bs is not well formed
Utf8CodePoint(bs) ==
    LET n == Len(bs)
        cp == IF n = 1 THEN bs[1]
              ELSE IF n = 2 THEN (bs[1] - 192) * 64 + (bs[2] - 128)
              ELSE IF n = 3 THEN (bs[1] - 224) * 4096 + (bs[2] - 128) * 64 + (bs[3] - 128)
              ELSE (bs[1] - 240) * 262144 + (bs[2] - 128) * 4096
                   + (bs[3] - 128) * 64 + (bs[4] - 128)
    IN IF \E i \in 2..n : ~IsContinuation(bs[i]) THEN -1
       ELSE IF n = 3 /\ (cp < 2048 \/ cp \in 55296..57343) THEN -1
       ELSE IF n = 4 /\ (cp < 65536 \/ cp > 1114111) THEN -1
       ELSE cp

\* bytes.decode('utf-8'): ok is FALSE where Python raises UnicodeDecodeError
RECURSIVE utf8_decode(_)
utf8_decode(bytes) ==
    IF bytes = <<>> THEN [ok |-> TRUE, text |-> <<>>]
    ELSE LET n == Utf8Length(bytes[1])
         IN IF n = 0 \/ n > Len(bytes) \/ Utf8CodePoint(SubSeq(bytes, 1, n)) = -1
            THEN [ok |-> FALSE, text |-> <<>>]
            ELSE LET rest == utf8_decode(SubSeq(bytes, n + 1, Len(bytes)))
                 IN [ok |-> rest.ok,
                     text |-> <<Utf8CodePoint(SubSeq(bytes, 1, n))>> \o rest.text]

\* win.getstr(y, x, n) for n >= 0: at most n of the bytes typed
getstr(bytes, n) == SubSeq(bytes, 1, Min(Len(bytes), n))

\* get_input_popup(stdscr, prompt) on a screen of h rows and w columns, the
\* prompt being `prompt` characters long: lines 578-579 show the cursor and turn
\* echo on, lines 588-589 undo it, and nothing in between is guarded.  getstr
\* raises ValueError for a negative length.
get_input_popup(h, w, prompt, term, read) ==
    LET popup_w == Min(popup_cols, w - 4)
        win == popup_win(h, w, popup_h, popup_w)
        shown == [cursor |-> 1, echo |-> TRUE]
        decoded == utf8_decode(getstr(read.bytes, popup_w - 6))
    IN IF win.raised \/ addstr_raises(win.h, win.w, 0, 2, prompt + 2, FALSE)
       THEN [exc |-> "curses.error", text |-> <<>>, term |-> term]
       ELSE IF addstr_raises(win.h, win.w, 1, 2, 2, FALSE)
       THEN [exc |-> "curses.error", text |-> <<>>, term |-> shown]
       ELSE IF popup_w - 6 < 0 THEN [exc |-> "ValueError", text |-> <<>>, term |-> shown]
       ELSE IF read.interrupted
       THEN [exc |-> "KeyboardInterrupt", text |-> <<>>, term |-> shown]
       ELSE IF ~decoded.ok THEN [exc |-> "UnicodeDecodeError", text |-> <<>>, term |-> shown]
       ELSE [exc |-> "none", text |-> Strip(decoded.text),
             term |-> [cursor |-> 0, echo |-> FALSE]]

\* the name get_input_popup returns on a screen w columns wide when the bytes
\* typed are read and decoded
input_text(w, typed) ==
    Strip(utf8_decode(getstr(typed, Min(popup_cols, w - 4) - 6)).text)

\* a popup that also takes 'Y' for yes
confirm_popup_anycase(h, w, message, read) ==
    LET popup_w == Min(popup_cols, w - 4)
        win == popup_win(h, w, popup_h, popup_w)
    IN IF \/ win.raised
          \/ addstr_raises(win.h, win.w, 0, 2, 9, FALSE)
          \/ addstr_raises(win.h, win.w, 1, 2, Sliced(message, popup_w - 4), FALSE)
          \/ addstr_raises(win.h, win.w, 2, 2, 45, FALSE)
       THEN [exc |-> "curses.error", yes |-> FALSE]
       ELSE IF read.interrupted THEN [exc |-> "KeyboardInterrupt", yes |-> FALSE]
       ELSE [exc |-> "none", yes |-> read.key \in {121, 89}]
\* confirm_popup(stdscr, message) on a screen of h rows and w columns, the
\* message being `message` characters long: one key is read
confirm_popup(h, w, message, read) ==
    LET popup_w == Min(popup_cols, w - 4)
        win == popup_win(h, w, popup_h, popup_w)
    IN IF \/ win.raised
          \/ addstr_raises(win.h, win.w, 0, 2, 9, FALSE)
          \/ addstr_raises(win.h, win.w, 1, 2, Sliced(message, popup_w - 4), FALSE)
          \/ addstr_raises(win.h, win.w, 2, 2, 45, FALSE)
       THEN [exc |-> "curses.error", yes |-> FALSE]
       ELSE IF read.interrupted THEN [exc |-> "KeyboardInterrupt", yes |-> FALSE]
       ELSE [exc |-> "none", yes |-> read.key = 121]

\* len(line) for the lines of help_text (lines 318-354)
help_text == <<11, 28, 31, 42, 0, 11, 31, 36, 36, 36, 45, 0, 15, 37, 41, 33, 0, 13, 22, 18,
               11, 11, 14, 15, 0, 19, 33, 28, 27, 35, 41, 30, 20, 0, 25>>

\* show_help_popup(stdscr): nothing in it is guarded
show_help_popup(h, w, read) ==
    LET rows == Min(help_rows, h - 4)
        cols == Min(help_cols, w - 4)
        win == popup_win(h, w, rows, cols)
    IN IF \/ win.raised
          \/ addstr_raises(win.h, win.w, 0, 2, 6, FALSE)
          \/ \E i \in 0..(Len(help_text) - 1) :
               /\ i < rows - 3
               /\ addstr_raises(win.h, win.w, i + 1, 2, Sliced(help_text[i + 1], cols - 4), FALSE)
       THEN "curses.error"
       ELSE IF read.interrupted THEN "KeyboardInterrupt"
       ELSE "none"

\* show_file_properties(stdscr, path_name): except Exception drops the OSError
\* of a path that is gone and the curses.error of a window, a title or a last
\* line that does not fit, before a key is read; the property lines, cut to the
\* window and above its last row, always fit
show_file_properties(f, h, w, path_name, read) ==
    LET rows == Min(properties_rows, h - 4)
        win == popup_win(h, w, rows, Min(popup_cols, w - 4))
    IN IF \/ ~Exists(f, path_name)
          \/ win.raised
          \/ addstr_raises(win.h, win.w, 0, 2, 12, FALSE)
          \/ addstr_raises(win.h, win.w, rows - 2, 2, 25, FALSE)
       THEN [exc |-> "none", read |-> FALSE]
       ELSE IF read.interrupted THEN [exc |-> "KeyboardInterrupt", read |-> FALSE]
       ELSE [exc |-> "none", read |-> TRUE]

\* open_file_external(path_name) and open_with_vim(stdscr, path_name): except
\* Exception drops what the opener raises, not the KeyboardInterrupt of a
\* SIGINT that arrives while it runs
open_file_external(read) == IF read.interrupted THEN "KeyboardInterrupt" ELSE "none"

\* show_context_menu: keys are read until one closes the menu.  A key is
\* [key, inside]: inside tells whether a mouse event lies in the menu region.
MenuActions == <<"open_default", "open_vim", "rename", "delete", "copy_path", "properties">>

\* the loop of lines 114-130 reading keys
RECURSIVE menu_loop(_)
menu_loop(keys) ==
    IF keys = <<>> THEN [closed |-> FALSE, action |-> "none", rest |-> 0]
    ELSE LET k == Head(keys)
         IN IF k.key = KEY_ESC THEN [closed |-> TRUE, action |-> "none", rest |-> Len(keys) - 1]
            ELSE IF k.key = KEY_MOUSE
            THEN IF ~k.inside THEN [closed |-> TRUE, action |-> "none", rest |-> Len(keys) - 1]
                 ELSE menu_loop(Tail(keys))
            ELSE IF 0 <= k.key - 49 /\ k.key - 49 < MenuOptions
            THEN [closed |-> TRUE, action |-> MenuActions[k.key - 49 + 1], rest |-> Len(keys) - 1]
            ELSE menu_loop(Tail(keys))

\* show_context_menu(stdscr, y, x, options) on a screen of h rows and w
\* columns: no key is read when the window cannot be made; read.interrupted
\* tells that SIGINT arrives once read.keys are read
show_context_menu(h, w, y, x, read) ==
    LET begin_y == IF y + menu_h > h THEN h - menu_h ELSE y
        begin_x == IF x + menu_w > w THEN w - menu_w ELSE x
        loop == menu_loop(read.keys)
    IN IF newwin_raises(menu_h, menu_w, begin_y, begin_x)
       THEN [exc |-> "curses.error", closed |-> FALSE, action |-> "none",
             rest |-> Len(read.keys)]
       ELSE IF ~loop.closed /\ read.interrupted
       THEN [exc |-> "KeyboardInterrupt", closed |-> FALSE, action |-> "none", rest |-> 0]
       ELSE [exc |-> "none", closed |-> loop.closed, action |-> loop.action,
             rest |-> loop.rest]

\* show_file_context(stdscr, full_path, y, x): the menu reads m and leaves the
\* screen at m.size, then the action it returned reads p and leaves it at
\* p.size.  ok is the return value, action what the menu returned, read whether
\* a popup of the action read p and returned, size the screen the call leaves,
\* by a return or by the exception exc: a read that was reached has resized
\* the screen even when the call then raises.
show_file_context(f, h, w, y, x, full_path, m, p) ==
    LET menu == show_context_menu(h, w, y, x, m)
        base == Len(full_path[Len(full_path)])
        none == [exc |-> "none", action |-> menu.action, ok |-> FALSE, fs |-> f,
                 read |-> FALSE, size |-> m.size]
        new_name == get_input_popup(m.size[1], m.size[2], 13 + base, MainTerminal, p)
        renamed == rename_file_or_dir(f, full_path, Parent(full_path), new_name.text)
        confirmed == confirm_popup(m.size[1], m.size[2], 22 + base, p)
        deleted == delete_file_or_dir(f, full_path)
        properties == show_file_properties(f, m.size[1], m.size[2], full_path, p)
    IN IF menu.exc = "curses.error" THEN [none EXCEPT !.exc = menu.exc, !.size = <<h, w>>]
       ELSE IF menu.exc # "none" THEN [none EXCEPT !.exc = menu.exc]
       ELSE IF menu.action \in {"open_default", "open_vim"}
       THEN [none EXCEPT !.exc = open_file_external(p)]
       ELSE IF menu.action = "rename"
       THEN IF new_name.exc \in {"curses.error", "ValueError"}
            THEN [none EXCEPT !.exc = new_name.exc]
            ELSE IF new_name.exc # "none"
            THEN [none EXCEPT !.exc = new_name.exc, !.size = p.size]
            ELSE IF new_name.text # <<>>
            THEN [none EXCEPT !.ok = renamed.ok, !.fs = renamed.fs, !.read = TRUE,
                              !.size = p.size]
            ELSE [none EXCEPT !.read = TRUE, !.size = p.size]
       ELSE IF menu.action = "delete"
       THEN IF confirmed.exc = "curses.error" THEN [none EXCEPT !.exc = confirmed.exc]
            ELSE IF confirmed.exc # "none"
            THEN [none EXCEPT !.exc = confirmed.exc, !.size = p.size]
            ELSE IF confirmed.yes
            THEN [none EXCEPT !.ok = deleted.ok, !.fs = deleted.fs, !.read = TRUE,
                              !.size = p.size]
            ELSE [none EXCEPT !.read = TRUE, !.size = p.size]
       ELSE IF menu.action = "properties"
       THEN IF properties.read THEN [none EXCEPT !.read = TRUE, !.size = p.size]
            ELSE IF properties.exc # "none"
            THEN [none EXCEPT !.exc = properties.exc, !.size = p.size]
            ELSE none
       ELSE none

(***************************************************************************)
(* Inputs of the model.                                                    *)
(***************************************************************************)
\* terminals: one too low for any popup, one with room for a popup but not for
\* the context menu, and one with room for both
Heights == {4, 5, MaxHeight}
\* columns: 1, 2 and 3 where the title, the rule or a row of the pane does not
\* fit; 9 where getstr is asked for a negative length and 10 where it reads
\* nothing; 12 and 19 where the input popup fits and the confirmation does not;
\* 24, one short of the context menu; 80
Widths == {1, 2, 3, 9, 10, 12, 19, 24, 80}
\* a screen of h rows and 80 columns
Wide(h) == <<h, 80>>
WideSizes == {Wide(h) : h \in Heights}
Sizes == Heights \X Widths
\* of /w: ".h", "a", "b" and "b", ".h", "a"
BrowseRanks == {0, 2}
Dts == {3, 5}                       \* ticks (100 ms) between two time.time() reads
HandlerDts == {0, 4}                \* ticks a blocking open_file_external takes
SearchChars == {65}                 \* 'A'
ConfirmKeys == {121, 110, 89, 27}   \* 'y', 'n', 'Y', Escape
\* "", " d" with the separator chr(29) after it, ".h", "b", "a", "../d", "d/"
InputStrings == {<<>>, <<32, 100, 29>>, <<46, 104>>, <<98>>, <<97>>, <<46, 46, 47, 100>>,
                 <<100, 47>>}
MenuKeys == {[key |-> KEY_ESC, inside |-> FALSE], [key |-> KEY_MOUSE, inside |-> TRUE],
             [key |-> KEY_MOUSE, inside |-> FALSE], [key |-> 49, inside |-> FALSE],
             [key |-> 51, inside |-> FALSE], [key |-> 52, inside |-> FALSE],
             [key |-> 54, inside |-> FALSE], [key |-> 55, inside |-> FALSE]}
\* the key sequences that close a menu on their last key, and what the menu returns
MenuInputs == {ks \in UNION {[1..n -> MenuKeys] : n \in 1..MaxMenuKeys} :
                  menu_loop(ks).closed /\ menu_loop(ks).rest = 0}
MenuOutcomes == {menu_loop(ks).action : ks \in MenuInputs}

\* What a blocking call of a handler reads, and the screen it leaves: a
\* KEY_RESIZE it reads has resized stdscr.  getstr returns what was typed when
\* the screen is resized; getch returns KEY_RESIZE; the menu loop reads on.
NoRead(sz) == [interrupted |-> FALSE, bytes |-> <<>>, key |-> -1, size |-> sz]
Sigint(sz) == [NoRead(sz) EXCEPT !.interrupted = TRUE]
InputReads(sz, rs) ==
    {[NoRead(z) EXCEPT !.bytes = b] : z \in {sz} \cup rs, b \in InputStrings} \cup {Sigint(sz)}
KeyReads(keys, sz, rs) ==
    {[NoRead(sz) EXCEPT !.key = k] : k \in keys}
    \cup {[NoRead(z) EXCEPT !.key = KEY_RESIZE] : z \in rs} \cup {Sigint(sz)}
OpenReads(sz) == {NoRead(sz), Sigint(sz)}

\* a key that makes the menu return action a
MenuKey(a) ==
    IF a = "none" THEN [key |-> KEY_ESC, inside |-> FALSE]
    ELSE [key |-> 48 + (CHOOSE i \in 1..MenuOptions : MenuActions[i] = a), inside |-> FALSE]
\* the menu reads the key of one of the actions or is interrupted before it
\* reads one; on a screen resized while it is up (it reads KEY_RESIZE first) the
\* user closes it, or goes on to the rename or the delete, whose popup opens on
\* the screen as it is then
MenuReads(actions, sz, rs) ==
    {[interrupted |-> FALSE, keys |-> <<MenuKey(a)>>, size |-> sz] : a \in actions}
    \cup {[interrupted |-> FALSE, size |-> z,
           keys |-> <<[key |-> KEY_RESIZE, inside |-> FALSE], MenuKey(a)>>] :
             a \in actions \cap {"none", "rename", "delete"}, z \in rs}
    \cup {[interrupted |-> TRUE, keys |-> <<>>, size |-> sz]}
\* the actions a menu is asked for in a run that may still change the
\* filesystem ops times
MenuChoices(ops) == IF ops > 0 THEN MenuOutcomes ELSE MenuOutcomes \ {"rename", "delete"}
\* what the action the menu returned reads on a screen of size sz: a name, the
\* key of a confirmation, the key that closes the properties, nothing
ActionReads(action, sz, rs) ==
    IF action = "rename" THEN InputReads(sz, rs)
    ELSE IF action = "delete" THEN KeyReads(ConfirmKeys, sz, rs)
    ELSE IF action = "properties" THEN KeyReads({32}, sz, {})
    ELSE IF action \in {"open_default", "open_vim"} THEN OpenReads(sz)
    ELSE {NoRead(sz)}

NW == <<119>>
NA == <<97>>
NB == <<98>>
NH == <<46, 104>>

\* /w holds the directory a (with the file a/a), the file b and the hidden file
\* .h; the browser starts in /w.  A file's content is a positive number, 0 once
\* open(path, 'w') truncated or created it.
InitFs == (<<>> :> DIR) @@ (<<NW>> :> DIR) @@ (<<NW, NA>> :> DIR) @@ (<<NW, NA, NA>> :> 3)
          @@ (<<NW, NB>> :> 1) @@ (<<NW, NH>> :> 4)

(***************************************************************************)
(* The event loop of main.                                                 *)
(***************************************************************************)
EnterKeys == {KEY_ENTER, 10, 13}

NoEvent == [key |-> -1, button |-> "none", y |-> -1, menu |-> "none",
            input_shown |-> FALSE, typed |-> <<>>, confirm_key |-> -1,
            target |-> <<>>, ok |-> FALSE, in_search |-> FALSE, prev_query |-> <<>>,
            entered |-> FALSE]

\* the event of key `key`, read in the current mode with the current query
Event(key) == [NoEvent EXCEPT !.key = key, !.in_search = search_mode,
                              !.prev_query = search_query]

\* ev keeps the events the properties below speak of: those that asked for a
\* name or a confirmation, a menu that returned rename or delete, in Search
\* mode any menu and the keys handled, and the double clicks that entered a
\* directory; any other event leaves NoEvent
Recorded(e) ==
    \/ e.menu \in {"rename", "delete"} \/ e.input_shown \/ e.confirm_key # -1
    \/ search_mode /\ (e.menu # "none" \/ e.key \notin {KEY_MOUSE, KEY_RESIZE})
    \/ e.entered

NoCreated == [stage |-> "none", name |-> <<>>, before |-> <<>>]

Age(dt) == Min(DoubleClickTicks, last_click_age + dt)
\* the ticks since the last iteration that main can tell apart: a click that
\* is DoubleClickTicks old stays so whatever time passes
Elapsed ==
    IF last_click_age = DoubleClickTicks THEN {dt \in Dts : \A d \in Dts : d <= dt} ELSE Dts

\* the locals of main when an event is read dt ticks after the last iteration ended
Cur(dt) == [fs |-> fs, show_hidden |-> show_hidden, path |-> path, files |-> files,
            all_files |-> all_files, search_results |-> search_results,
            current_idx |-> current_idx, offset |-> offset, search_mode |-> search_mode,
            search_query |-> search_query, age |-> Age(dt),
            last_click_idx |-> last_click_idx, clicked_idx |-> clicked_idx, quit |-> FALSE,
            exc |-> "none", ord |-> listdir_order]

Screen == <<term_h, term_w>>

\* files[current_idx] resolved to its full path (lines 813-816 and their copies)
FullPathOf(p, fl, idx) == IF fl[idx + 1].tuple THEN fl[idx + 1].full ELSE p \o fl[idx + 1].display

HasCurrent(fl, idx) == fl # <<>> /\ idx < Len(fl)

\* files = list_dir(path); all_files = list(files)
Reloaded(s) ==
    LET l == Plain(list_dir(s.fs, s.ord, s.show_hidden, s.path))
    IN [s EXCEPT !.files = l, !.all_files = l]

\* path = full_path; files = list_dir(path); all_files = list(files); current_idx, offset = 0, 0
Entered(s, full_path) ==
    [Reloaded([s EXCEPT !.path = full_path]) EXCEPT !.current_idx = 0, !.offset = 0]

\* current_idx = min(current_idx, len(files) - 1) if files else 0
Clamped(s) ==
    [s EXCEPT !.current_idx = IF s.files # <<>> THEN Min(s.current_idx, Len(s.files) - 1) ELSE 0]

\* the orders ord may turn out to hold once the directories of f at or below p
\* that were not enumerated yet are
Completions(ord, f, p) ==
    IF \A d \in DOMAIN f : f[d] = DIR => d \in DOMAIN ord THEN {ord}
    ELSE {o @@ ord : o \in Orders([q \in {d \in DOMAIN f : /\ f[d] = DIR
                                                           /\ IsPrefix(p, d)
                                                           /\ d \notin DOMAIN ord} |->
                                      Cardinality(ChildNames(f, q))])}

\* the order of the directories whose names are in g what they were in f: the
\* OS may enumerate a directory that changed in any order
KeptOrder(ord, f, g) ==
    IF g = f THEN ord
    ELSE [d \in {q \in DOMAIN ord : IsDir(g, q) /\ ChildNames(g, q) = ChildNames(f, q)} |->
            ord[d]]

\* The rest of an iteration after the handler left the locals s and the screen
\* at size sz: the click feedback reset (lines 910-911), then the next frame
\* (lines 715-719), where files[current_idx] raises IndexError when out of
\* range.  s.exc is the exception the handler raised and main does not catch:
\* the loop is left where the handler stood.
Commit(e, s, sz) ==
    /\ fs' = s.fs
    /\ show_hidden' = s.show_hidden
    /\ path' = s.path
    /\ files' = s.files
    /\ all_files' = s.all_files
    /\ search_results' = s.search_results
    /\ current_idx' = s.current_idx
    /\ search_mode' = s.search_mode
    /\ search_query' = s.search_query
    /\ last_click_idx' = s.last_click_idx
    /\ IF s.quit \/ s.exc # "none"
       THEN /\ pc' = IF s.exc = "KeyboardInterrupt" THEN "keyboard_interrupt"
                     ELSE IF s.exc # "none" THEN "crash"
                     ELSE "quit"
            /\ clicked_idx' = s.clicked_idx
            /\ offset' = s.offset
            /\ UNCHANGED <<last_click_age, click_areas, term_h, term_w>>
       ELSE /\ last_click_age' = s.age
            /\ clicked_idx' = IF s.clicked_idx # -1 /\ s.age > FeedbackTicks
                              THEN -1 ELSE s.clicked_idx
            /\ LET frame == draw_files(s.fs, s.show_hidden, sz[1], sz[2], s.path, s.files,
                                       s.current_idx, s.offset, s.search_mode, clicked_idx')
               IN /\ offset' = frame.offset
                  /\ click_areas' = frame.click_areas
            /\ term_h' = sz[1]
            /\ term_w' = sz[2]
            /\ pc' = IF s.files # <<>> /\ s.current_idx >= Len(s.files) THEN "crash" ELSE "run"
    /\ listdir_order' = KeptOrder(s.ord, fs, s.fs)
    /\ ev' = IF Recorded(e) THEN e ELSE NoEvent
    /\ pre_search' = IF e.key = 47 /\ ~search_mode THEN files
                     ELSE IF search_mode THEN pre_search ELSE <<>>
    /\ created' =
         IF e.key = 110 /\ ~search_mode /\ e.ok
         THEN [stage |-> "created", name |-> input_text(term_w, e.typed),
               before |-> Plain(list_dir(fs, listdir_order, show_hidden, path))]
         ELSE IF created.stage = "created" /\ e.key = 100 /\ ~search_mode /\ e.ok
                 /\ e.target = Append(path, created.name)
         THEN [created EXCEPT !.stage = "deleted"]
         ELSE IF created.stage = "created" /\ s.fs = fs /\ s.path = path
                 /\ s.show_hidden = show_hidden
         THEN created
         ELSE NoCreated
    /\ ops_left' = IF s.fs # fs THEN ops_left - 1 ELSE ops_left
    /\ UNCHANGED <<resizes, srch, lay, call>>

Running == pc = "run"

\* a 'q' that quits in Search mode too
KeyQuit_anymode ==
    /\ Running
    /\ \E dt \in Elapsed : Commit(Event(113), [Cur(dt) EXCEPT !.quit = TRUE], Screen)
\* key 'q'
KeyQuit ==
    /\ Running /\ ~search_mode
    /\ \E dt \in Elapsed : Commit(Event(113), [Cur(dt) EXCEPT !.quit = TRUE], Screen)

\* KeyboardInterrupt raised in getch (lines 723-724): the loop ends, in either
\* mode, and no event was read
Interrupt ==
    /\ Running
    /\ pc' = "interrupted"
    /\ ev' = NoEvent
    /\ UNCHANGED <<fs, listdir_order, show_hidden, path, files, all_files, search_results,
                   current_idx, offset, search_mode, search_query, last_click_age,
                   last_click_idx, clicked_idx, click_areas, term_h, term_w, resizes,
                   pre_search, created, ops_left, srch, lay, call>>

\* the event of a call of show_file_context that returned c having read p
ContextEvent(e, c, full_path, p) ==
    [e EXCEPT !.menu = c.action, !.target = full_path, !.ok = c.ok,
              !.input_shown = (c.action = "rename" /\ c.read),
              !.typed = IF c.action = "rename" /\ c.read THEN p.bytes ELSE <<>>,
              !.confirm_key = IF c.action = "delete" /\ c.read THEN p.key ELSE -1]

\* key ' ': the context menu on the selected entry, asked for in the middle of
\* the screen; its result is dropped.  The call (line 817) is in no try block.
KeySpace ==
    /\ Running /\ ~search_mode
    /\ \E dt \in Elapsed :
         IF HasCurrent(files, current_idx)
         THEN \E m \in MenuReads(MenuChoices(ops_left), Screen, resizes) :
              \E p \in ActionReads(menu_loop(m.keys).action, m.size,
                                    IF m.size = Screen THEN resizes ELSE {}) :
                LET full_path == FullPathOf(path, files, current_idx)
                    c == show_file_context(fs, term_h, term_w, term_h \div 2, term_w \div 2,
                                           full_path, m, p)
                IN Commit(ContextEvent(Event(32), c, full_path, p),
                          [Cur(dt) EXCEPT !.fs = c.fs, !.exc = c.exc], c.size)
         ELSE Commit(Event(32), Cur(dt), Screen)

\* key '/'
KeySlash ==
    /\ Running /\ ~search_mode
    /\ \E dt \in Elapsed :
         Commit(Event(47), [Cur(dt) EXCEPT !.search_mode = TRUE, !.search_query = <<>>,
                                           !.all_files = files], Screen)

\* key '?': the help popup, then stdscr.clear().  The call (line 823) is in no
\* try block.
KeyHelp ==
    /\ Running /\ ~search_mode
    /\ \E r \in KeyReads({32}, Screen, resizes), dt \in Elapsed :
         LET exc == show_help_popup(term_h, term_w, r)
         IN Commit(Event(63), [Cur(dt) EXCEPT !.exc = exc],
                   IF exc = "none" THEN r.size ELSE Screen)

\* key 'b'
KeyBack ==
    /\ Running /\ ~search_mode
    /\ \E dt \in Elapsed :
         LET new_path == Parent(path)
         IN IF IsDir(fs, new_path) /\ new_path # path
            THEN Commit(Event(98), Entered(Cur(dt), new_path), Screen)
            ELSE Commit(Event(98), Cur(dt), Screen)

\* key 'r'
KeyReload ==
    /\ Running /\ ~search_mode
    /\ \E dt \in Elapsed : Commit(Event(114), Clamped(Reloaded(Cur(dt))), Screen)

\* key 'o': open_file_external on the selected entry
KeyOpen ==
    /\ Running /\ ~search_mode
    /\ \E dt \in Elapsed :
         IF HasCurrent(files, current_idx)
         THEN \E r \in OpenReads(Screen) :
                Commit(Event(111), [Cur(dt) EXCEPT !.exc = open_file_external(r)], Screen)
         ELSE Commit(Event(111), Cur(dt), Screen)

\* key 'h'
KeyHidden ==
    /\ Running /\ ~search_mode
    /\ \E dt \in Elapsed :
         Commit(Event(104),
                [Clamped(Reloaded([Cur(dt) EXCEPT !.show_hidden = ~show_hidden]))
                    EXCEPT !.offset = 0], Screen)

\* KEY_UP or 'k'
KeyUp ==
    /\ Running /\ ~search_mode
    /\ \E key \in {KEY_UP, 107}, dt \in Elapsed :
         IF files # <<>>
         THEN Commit(Event(key), [Cur(dt) EXCEPT !.current_idx = Max(0, current_idx - 1)], Screen)
         ELSE Commit(Event(key), Cur(dt), Screen)

\* KEY_DOWN or 'j'
KeyDown ==
    /\ Running /\ ~search_mode
    /\ \E key \in {KEY_DOWN, 106}, dt \in Elapsed :
         IF files # <<>>
         THEN Commit(Event(key),
                     [Cur(dt) EXCEPT !.current_idx = Min(current_idx + 1, Len(files) - 1)], Screen)
         ELSE Commit(Event(key), Cur(dt), Screen)

\* lines 856-866: what Enter does with the selected entry.  locals are the
\* locals of main it leaves, opened the paths open_file_external was called on.
activate_enter(s) ==
    IF HasCurrent(s.files, s.current_idx)
       /\ IsDir(s.fs, FullPathOf(s.path, s.files, s.current_idx))
    THEN [locals |-> Entered(s, FullPathOf(s.path, s.files, s.current_idx)), opened |-> {}]
    ELSE [locals |-> s, opened |-> {}]

\* KEY_ENTER, '\n' or '\r' in Normal mode
KeyEnter ==
    /\ Running /\ ~search_mode
    /\ \E key \in EnterKeys, dt \in Elapsed :
         Commit(Event(key), activate_enter(Cur(dt)).locals, Screen)

\* a create that reloads the listing and selects its first entry whatever
\* create_file_or_dir returned
KeyCreate_reloads(key, is_file) ==
    /\ Running /\ ~search_mode /\ ops_left > 0
    /\ \E p \in InputReads(Screen, resizes), dt \in Elapsed :
         LET name == get_input_popup(term_h, term_w, IF is_file THEN 14 ELSE 19,
                                     MainTerminal, p)
             r == IF name.text # <<>> THEN create_file_or_dir(fs, path, name.text, is_file)
                  ELSE [ok |-> FALSE, fs |-> fs]
             e == [Event(key) EXCEPT !.input_shown = TRUE, !.typed = p.bytes, !.ok = r.ok]
         IN IF name.exc # "none"
            THEN Commit(Event(key), [Cur(dt) EXCEPT !.exc = name.exc], Screen)
            ELSE Commit(e, [Reloaded([Cur(dt) EXCEPT !.fs = r.fs]) EXCEPT !.current_idx = 0],
                        p.size)
\* keys 'n' (is_file) and 'm': create from the name typed in the input popup,
\* whose prompt is "New file name:" or "New directory name:"
KeyCreate(key, is_file) ==
    /\ Running /\ ~search_mode /\ ops_left > 0
    /\ \E p \in InputReads(Screen, resizes), dt \in Elapsed :
         LET name == get_input_popup(term_h, term_w, IF is_file THEN 14 ELSE 19,
                                     MainTerminal, p)
             r == IF name.text # <<>> THEN create_file_or_dir(fs, path, name.text, is_file)
                  ELSE [ok |-> FALSE, fs |-> fs]
             e == [Event(key) EXCEPT !.input_shown = TRUE, !.typed = p.bytes, !.ok = r.ok]
         IN IF name.exc # "none"
            THEN Commit(Event(key), [Cur(dt) EXCEPT !.exc = name.exc], Screen)
            ELSE IF r.ok
            THEN Commit(e, Reloaded([Cur(dt) EXCEPT !.fs = r.fs]), p.size)
            ELSE Commit(e, Cur(dt), p.size)

KeyNewFile == KeyCreate(110, TRUE)

KeyNewDir == KeyCreate(109, FALSE)

\* KEY_F2: rename the selected entry to the name typed
KeyRename ==
    /\ Running /\ ~search_mode /\ ops_left > 0
    /\ \E dt \in Elapsed :
         IF HasCurrent(files, current_idx)
         THEN \E p \in InputReads(Screen, resizes) :
                LET full_path == FullPathOf(path, files, current_idx)
                    new_name == get_input_popup(term_h, term_w,
                                                13 + Len(full_path[Len(full_path)]),
                                                MainTerminal, p)
                    r == IF new_name.text # <<>>
                         THEN rename_file_or_dir(fs, full_path, Parent(full_path),
                                                 new_name.text)
                         ELSE [ok |-> FALSE, fs |-> fs]
                    e == [Event(KEY_F2) EXCEPT !.input_shown = TRUE, !.typed = p.bytes,
                                               !.target = full_path, !.ok = r.ok]
                IN IF new_name.exc # "none"
                   THEN Commit(Event(KEY_F2), [Cur(dt) EXCEPT !.exc = new_name.exc], Screen)
                   ELSE IF r.ok
                   THEN Commit(e, Reloaded([Cur(dt) EXCEPT !.fs = r.fs]), p.size)
                   ELSE Commit(e, Cur(dt), p.size)
         ELSE Commit(Event(KEY_F2), Cur(dt), Screen)

\* key 'd': delete the selected entry once the confirmation popup read 'y'
KeyDelete ==
    /\ Running /\ ~search_mode /\ ops_left > 0
    /\ \E dt \in Elapsed :
         IF HasCurrent(files, current_idx)
         THEN \E p \in KeyReads(ConfirmKeys, Screen, resizes) :
                LET full_path == FullPathOf(path, files, current_idx)
                    confirmed == confirm_popup(term_h, term_w,
                                               22 + Len(full_path[Len(full_path)]), p)
                    r == IF confirmed.yes
                         THEN delete_file_or_dir(fs, full_path)
                         ELSE [ok |-> FALSE, fs |-> fs]
                    e == [Event(100) EXCEPT !.confirm_key = p.key, !.target = full_path,
                                            !.ok = r.ok]
                IN IF confirmed.exc # "none"
                   THEN Commit(Event(100), [Cur(dt) EXCEPT !.exc = confirmed.exc], Screen)
                   ELSE IF r.ok
                   THEN Commit(e, Clamped(Reloaded([Cur(dt) EXCEPT !.fs = r.fs])), p.size)
                   ELSE Commit(e, Cur(dt), p.size)
         ELSE Commit(Event(100), Cur(dt), Screen)

\* a key no branch handles (KEY_RESIZE among them: the next frame is drawn on
\* the screen as it is then)
KeyOther ==
    /\ Running
    /\ \E sz \in {Screen} \cup resizes, dt \in Elapsed : Commit(Event(KEY_RESIZE), Cur(dt), sz)

BackspaceKeys == {KEY_BACKSPACE, 127, 8, KEY_DC}

\* a Backspace that searches again whatever is left of the query
search_backspace_research(s, q, res) ==
    [s EXCEPT !.search_query = q, !.search_results = res, !.files = res,
              !.current_idx = 0, !.offset = 0]
\* lines 781-789: the locals after Backspace left the query q; res is the search for q
search_backspace(s, q, res) ==
    IF q # <<>>
    THEN [s EXCEPT !.search_query = q, !.search_results = res, !.files = res,
                   !.current_idx = 0, !.offset = 0]
    ELSE [s EXCEPT !.search_query = q, !.files = s.all_files, !.search_results = <<>>,
                   !.current_idx = 0, !.offset = 0]

\* an Escape that leaves the results on display
search_escape_keep(s) ==
    [s EXCEPT !.search_mode = FALSE, !.search_query = <<>>,
              !.current_idx = 0, !.offset = 0]
\* lines 791-795
search_escape(s) ==
    [s EXCEPT !.search_mode = FALSE, !.search_query = <<>>, !.files = s.all_files,
              !.current_idx = 0, !.offset = 0]

\* lines 797-801
search_enter(s) ==
    [s EXCEPT !.search_mode = FALSE,
              !.files = IF s.search_results # <<>> THEN s.search_results ELSE s.files,
              !.current_idx = 0, !.offset = 0]

\* Search mode: KEY_BACKSPACE, 127, 8 or KEY_DC
SearchBackspace ==
    /\ Running /\ search_mode
    /\ \E key \in BackspaceKeys, dt \in Elapsed :
         IF search_query # <<>>
         THEN LET q == SubSeq(search_query, 1, Len(search_query) - 1)
              IN IF q # <<>>
                 THEN \E o \in Completions(listdir_order, fs, path) :
                        Commit(Event(key),
                               search_backspace([Cur(dt) EXCEPT !.ord = o], q,
                                   search_files_recursive(fs, o, show_hidden, path, q,
                                                          default_max_results).results),
                               Screen)
                 ELSE Commit(Event(key),
                             search_backspace(Cur(dt), q,
                                 search_files_recursive(fs, listdir_order, show_hidden, path, q,
                                                        default_max_results).results),
                             Screen)
         ELSE Commit(Event(key), Cur(dt), Screen)

\* Search mode: key 27
SearchEscape ==
    /\ Running /\ search_mode
    /\ \E dt \in Elapsed :
         Commit(Event(KEY_ESC), search_escape(Cur(dt)), Screen)

\* Search mode: KEY_ENTER, '\n' or '\r'
SearchEnter ==
    /\ Running /\ search_mode
    /\ \E key \in EnterKeys, dt \in Elapsed :
         Commit(Event(key), search_enter(Cur(dt)), Screen)

\* a printable key that searches for the key typed, not for the query
SearchCharIn_lastkey(chars) ==
    /\ Running /\ search_mode /\ Len(search_query) < MaxQueryLen
    /\ \E key \in chars, dt \in Elapsed, o \in Completions(listdir_order, fs, path) :
         LET q == Append(search_query, key)
             res == search_files_recursive(fs, o, show_hidden, path, <<key>>,
                                           default_max_results).results
         IN Commit(Event(key),
                   [Cur(dt) EXCEPT !.search_query = q, !.search_results = res, !.files = res,
                                   !.current_idx = 0, !.offset = 0, !.ord = o],
                   Screen)
\* Search mode: a printable key, 32..126
SearchCharIn(chars) ==
    /\ Running /\ search_mode /\ Len(search_query) < MaxQueryLen
    /\ \E key \in chars, dt \in Elapsed, o \in Completions(listdir_order, fs, path) :
         LET q == Append(search_query, key)
             res == search_files_recursive(fs, o, show_hidden, path, q,
                                           default_max_results).results
         IN Commit(Event(key),
                   [Cur(dt) EXCEPT !.search_query = q, !.search_results = res, !.files = res,
                                   !.current_idx = 0, !.offset = 0, !.ord = o],
                   Screen)

SearchChar == SearchCharIn(SearchChars)

\* the keys that are commands in Normal mode: q, d, n, m, b, h, r, o, Space, ?
ActionKeys == {113, 100, 110, 109, 98, 104, 114, 111, 32, 63}

\* an action key typed into the query
SearchActionKey == Len(search_query) < MaxActionKeys /\ SearchCharIn(ActionKeys)

MouseEvent(button, y) == [Event(KEY_MOUSE) EXCEPT !.button = button, !.y = y]

\* BUTTON4_PRESSED: wheel up
MouseWheelUp ==
    /\ Running
    /\ \E dt \in Elapsed :
         Commit(MouseEvent("b4", -1),
                [Cur(dt) EXCEPT !.current_idx = Max(0, current_idx - WheelStep),
                                !.clicked_idx = -1], Screen)

\* BUTTON5_PRESSED: wheel down
MouseWheelDown ==
    /\ Running
    /\ \E dt \in Elapsed :
         Commit(MouseEvent("b5", -1),
                [Cur(dt) EXCEPT !.current_idx = IF files # <<>>
                                                 THEN Min(Len(files) - 1, current_idx + WheelStep)
                                                 ELSE current_idx,
                                !.clicked_idx = -1], Screen)

\* a double click that takes an elapsed time of exactly the interval too
IsDoubleClick_late(age, idx, last_idx) == age <= DoubleClickTicks /\ idx = last_idx
\* the second press of a double click: elapsed time and row both match
IsDoubleClick(age, idx, last_idx) == age < DoubleClickTicks /\ idx = last_idx

\* lines 755-760: what a double click does with the entry at full_path, once the
\* press has selected it
activate_double_click(s, full_path) ==
    IF IsDir(s.fs, full_path)
    THEN [locals |-> Entered(s, full_path), opened |-> {}]
    ELSE [locals |-> s, opened |-> {full_path}]

\* BUTTON1_PRESSED in Normal mode on row y.  hd is the time the handler takes
\* after it read current_time (open_file_external blocks until the opener
\* returns); a SIGINT while it blocks ends main before lines 762-763.
Button1On(y, dt) ==
    /\ Running /\ ~search_mode
    /\   IF y \in DOMAIN click_areas
         THEN LET idx == click_areas[y]
                  s0 == [Cur(dt) EXCEPT !.clicked_idx = idx, !.current_idx = idx]
                  s1 == [s0 EXCEPT !.last_click_idx = idx, !.age = 0]
                  full_path == FullPathOf(path, files, idx)
              IN IF IsDoubleClick(Age(dt), idx, last_click_idx) /\ HasCurrent(files, idx)
                 THEN LET r == activate_double_click(s1, full_path)
                      IN IF r.opened = {}
                         THEN Commit([MouseEvent("b1", y) EXCEPT !.entered = TRUE],
                                     r.locals, Screen)
                         ELSE \/ \E hd \in HandlerDts :
                                   Commit(MouseEvent("b1", y), [r.locals EXCEPT !.age = hd],
                                          Screen)
                              \/ Commit(MouseEvent("b1", y),
                                        [s0 EXCEPT !.exc = open_file_external(Sigint(Screen))],
                                        Screen)
                 ELSE Commit(MouseEvent("b1", y), s1, Screen)
         ELSE Commit(MouseEvent("b1", y), Cur(dt), Screen)

MouseButton1 == \E y \in 0..(term_h - 1), dt \in Elapsed : Button1On(y, dt)

\* BUTTON3_PRESSED in Normal mode on row y and column x: select the row, then
\* the context menu asked for there.  The try block of lines 727-776 drops a
\* curses.error and nothing else.
MouseButton3 ==
    /\ Running /\ ~search_mode
    /\ \E y \in 0..(term_h - 1), dt \in Elapsed :
         IF y \in DOMAIN click_areas /\ HasCurrent(files, click_areas[y])
         THEN \E x \in {term_w - 1}, m \in MenuReads(MenuChoices(ops_left), Screen, resizes) :
              \E p \in ActionReads(menu_loop(m.keys).action, m.size,
                                    IF m.size = Screen THEN resizes ELSE {}) :
                LET full_path == FullPathOf(path, files, click_areas[y])
                    c == show_file_context(fs, term_h, term_w, y, x, full_path, m, p)
                IN Commit(ContextEvent(MouseEvent("b3", y), c, full_path, p),
                          [Cur(dt) EXCEPT !.fs = c.fs, !.current_idx = click_areas[y],
                                          !.exc = IF c.exc = "curses.error" THEN "none"
                                                  ELSE c.exc],
                          c.size)
         ELSE IF y \in DOMAIN click_areas
         THEN Commit(MouseEvent("b3", y), [Cur(dt) EXCEPT !.current_idx = click_areas[y]], Screen)
         ELSE Commit(MouseEvent("b3", y), Cur(dt), Screen)

\* a mouse event no branch handles: a press of button 1 or 3 in Search mode,
\* any other button state, or curses.error from getmouse
MouseIgnoredOn(button, y, dt) ==
    /\ Running
    /\ button \in {"b1", "b3"} => search_mode
    /\ Commit(MouseEvent(button, y), Cur(dt), Screen)

MouseIgnored ==
    \E by \in {<<"other", -1>>}
               \cup (IF search_mode THEN {"b1", "b3"} \X (0..(term_h - 1)) ELSE {}),
       dt \in Elapsed :
       MouseIgnoredOn(by[1], by[2], dt)

\* lines 701-712, and the first frame on a screen of size sz; rs are the sizes
\* the user may give the terminal during the run
MainInit(sz, rs, ord, ops) ==
    LET l == Plain(list_dir(InitFs, ord, FALSE, <<NW>>))
        frame == draw_files(InitFs, FALSE, sz[1], sz[2], <<NW>>, l, 0, 0, FALSE, -1)
    IN /\ fs = InitFs
       /\ listdir_order = ord
       /\ show_hidden = FALSE
       /\ path = <<NW>>
       /\ files = l
       /\ all_files = l
       /\ search_results = <<>>
       /\ current_idx = 0
       /\ offset = frame.offset
       /\ click_areas = frame.click_areas
       /\ term_h = sz[1]
       /\ term_w = sz[2]
       /\ resizes = rs
       /\ search_mode = FALSE
       /\ search_query = <<>>
       /\ last_click_age = DoubleClickTicks
       /\ last_click_idx = -1
       /\ clicked_idx = -1
       /\ pc = IF l # <<>> /\ 0 >= Len(l) THEN "crash" ELSE "run"
       /\ ev = NoEvent
       /\ pre_search = <<>>
       /\ created = NoCreated
       /\ ops_left = ops

SrchIdle == [stage |-> "idle", tree |-> InitFs, ord |-> Uniform(InitFs, 0), show_hidden |-> FALSE,
             root |-> <<>>, query |-> <<>>, max_results |-> 0, results |-> <<>>, listed |-> {}]
CallIdle == [fn |-> "none", stage |-> "idle"]
LayIdle == [stage |-> "idle", n |-> 0, current_idx |-> 0, offset |-> 0, h |-> 0, w |-> 0,
            hidden |-> FALSE, search_mode |-> FALSE, clicked_idx |-> -1,
            new_offset |-> 0, click_areas |-> NoClickAreas]

Init ==
    /\ \E sz \in Sizes, o \in OrdersBelow(InitFs, <<>>) : MainInit(sz, Sizes, o, MaxOps)
    /\ srch = SrchIdle
    /\ lay = LayIdle
    /\ call = CallIdle

Next ==
    \/ KeyQuit \/ KeySpace \/ KeySlash \/ KeyHelp \/ KeyBack \/ KeyReload \/ KeyOpen
    \/ KeyHidden \/ KeyUp \/ KeyDown \/ KeyEnter \/ KeyNewFile \/ KeyNewDir \/ KeyRename
    \/ KeyDelete \/ KeyOther
    \/ SearchBackspace \/ SearchEscape \/ SearchEnter \/ SearchChar
    \/ MouseWheelUp \/ MouseWheelDown \/ MouseButton1 \/ MouseButton3 \/ MouseIgnored
    \/ Interrupt

\* the whole program
Spec == Init /\ [][Next]_vars

\* Browsing: every event except a request to change the filesystem, on a
\* terminal 80 columns wide that may be given any of the heights
InitBrowse ==
    /\ \E h \in Heights, k \in BrowseRanks :
         MainInit(Wide(h), WideSizes, Uniform(InitFs, k), 0)
    /\ srch = SrchIdle
    /\ lay = LayIdle
    /\ call = CallIdle

NextBrowse ==
    \/ KeyQuit \/ KeySpace \/ KeySlash \/ KeyHelp \/ KeyBack \/ KeyReload \/ KeyOpen
    \/ KeyHidden \/ KeyUp \/ KeyDown \/ KeyEnter \/ KeyOther
    \/ SearchBackspace \/ SearchEscape \/ SearchEnter \/ SearchChar
    \/ MouseWheelUp \/ MouseWheelDown \/ MouseButton1 \/ MouseButton3 \/ MouseIgnored

SpecBrowse == InitBrowse /\ [][NextBrowse]_vars

\* File operations: every event except '/', a press of button 1 and a resize
InitFiles ==
    /\ MainInit(Wide(MaxHeight), {}, Uniform(InitFs, 0), MaxOps)
    /\ srch = SrchIdle
    /\ lay = LayIdle
    /\ call = CallIdle

NextFiles ==
    \/ KeyQuit \/ KeySpace \/ KeyHelp \/ KeyBack \/ KeyReload \/ KeyOpen
    \/ KeyHidden \/ KeyUp \/ KeyDown \/ KeyEnter \/ KeyNewFile \/ KeyNewDir \/ KeyRename
    \/ KeyDelete
    \/ MouseWheelUp \/ MouseWheelDown \/ MouseButton3 \/ MouseIgnored

SpecFiles == InitFiles /\ [][NextFiles]_vars

\* Create and delete round trips: 'n', 'd', selection moves and reloads only,
\* with room for one mutation more than SpecFiles
InitRoundTrip ==
    /\ MainInit(Wide(MaxHeight), {}, Uniform(InitFs, 0), MaxOps + 1)
    /\ srch = SrchIdle
    /\ lay = LayIdle
    /\ call = CallIdle

NextRoundTrip == KeyNewFile \/ KeyDelete \/ KeyUp \/ KeyDown \/ KeyReload \/ KeyHidden

SpecRoundTrip == InitRoundTrip /\ [][NextRoundTrip]_vars

\* Failing operations: the four mutation keys and the context menu of Space,
\* with room for one mutation more than SpecFiles, so that an operation can
\* meet what an earlier one left behind, on a terminal with room for the
\* popups and on one without
InitFailures ==
    /\ \E h \in {4, MaxHeight} : MainInit(Wide(h), {}, Uniform(InitFs, 0), MaxOps + 1)
    /\ srch = SrchIdle
    /\ lay = LayIdle
    /\ call = CallIdle

NextFailures ==
    \/ KeyNewFile \/ KeyNewDir \/ KeyRename \/ KeyDelete \/ KeySpace \/ KeyUp \/ KeyDown

SpecFailures == InitFailures /\ [][NextFailures]_vars

\* Mouse presses: button 1, the wheel and selection keys, in and out of Search
\* mode, with no other way into a subdirectory than a double click
InitClicks ==
    /\ \E h \in Heights, k \in BrowseRanks :
         MainInit(Wide(h), WideSizes, Uniform(InitFs, k), 0)
    /\ srch = SrchIdle
    /\ lay = LayIdle
    /\ call = CallIdle

NextClicks ==
    \/ MouseButton1 \/ MouseIgnored \/ MouseWheelUp \/ MouseWheelDown
    \/ KeyUp \/ KeyDown \/ KeyBack \/ KeyHidden \/ KeyOther \/ KeySlash \/ SearchEscape

SpecClicks == InitClicks /\ [][NextClicks]_vars

\* Hidden entries: 'h' (104) in Normal mode and in the query, search sessions,
\* reloads and moves between directories
InitHidden ==
    /\ \E k \in BrowseRanks : MainInit(Wide(MaxHeight), {}, Uniform(InitFs, k), 0)
    /\ srch = SrchIdle
    /\ lay = LayIdle
    /\ call = CallIdle

NextHidden ==
    \/ KeyHidden \/ KeySlash \/ SearchCharIn({104}) \/ SearchBackspace \/ SearchEscape \/ SearchEnter
    \/ KeyReload \/ KeyEnter \/ KeyBack \/ KeyUp \/ KeyDown

SpecHidden == InitHidden /\ [][NextHidden]_vars

\* Search mode against the commands of Normal mode: the action keys typed into
\* the query, mouse presses and interrupts in either mode, and in Normal mode
\* 'q' and 'd' with one filesystem mutation allowed
InitSearchMode ==
    /\ MainInit(Wide(MaxHeight), {}, Uniform(InitFs, 0), MaxOps)
    /\ srch = SrchIdle
    /\ lay = LayIdle
    /\ call = CallIdle

NextSearchMode ==
    \/ KeySlash \/ SearchActionKey \/ SearchBackspace \/ SearchEscape \/ SearchEnter
    \/ MouseIgnored \/ MouseWheelUp \/ MouseWheelDown
    \/ KeyQuit \/ Interrupt \/ KeyDelete \/ KeyDown

SpecSearchMode == InitSearchMode /\ [][NextSearchMode]_vars

(***************************************************************************)
(* SpecSearch: one call of search_files_recursive on a tree, a root, a     *)
(* query and a max_results drawn from bounded sets, every directory at or  *)
(* below the root enumerated in each of its orders, one apart from another.*)
(***************************************************************************)
NBig == <<65, 98>>       \* "Ab"
NHid == <<46, 97>>       \* ".a"
NLeaf == <<99>>          \* "c"

Chain(k) == [i \in 1..k |-> NA]

\* A chain of d nested directories a/a/.../a with the file c in the last one, and
\* optionally: a file Ab in every directory of the chain; a hidden directory .a
\* holding a file a; a second directory b holding a directory a with a file a.
TreeOf(d, with_files, with_hidden, wide) ==
    LET dirs == {Chain(k) : k \in 0..d}
                \cup (IF with_hidden THEN {<<NHid>>} ELSE {})
                \cup (IF wide THEN {<<NB>>, <<NB, NA>>} ELSE {})
        regular == {Append(Chain(d), NLeaf)}
                \cup (IF with_files THEN {Append(Chain(k), NBig) : k \in 0..d} ELSE {})
                \cup (IF with_hidden THEN {<<NHid, NA>>} ELSE {})
                \cup (IF wide THEN {<<NB, NA, NA>>} ELSE {})
    IN [p \in dirs \cup regular |-> IF p \in dirs THEN DIR ELSE 1]

SearchQueries == {<<>>, <<97>>, <<66>>, <<99>>}     \* "", "a", "B", "c"

SearchInit ==
    /\ MainInit(Wide(MaxHeight), {}, Uniform(InitFs, 0), 0)
    /\ lay = LayIdle
    /\ call = CallIdle
    /\ \E d \in 0..MaxTreeDepth, wf \in BOOLEAN, wh \in BOOLEAN, wd \in BOOLEAN,
          sh \in BOOLEAN, q \in SearchQueries,
          m \in (0..MaxResultsBound) \cup {default_max_results}, r \in {<<>>, <<NA>>} :
         /\ IsDir(TreeOf(d, wf, wh, wd), r)
         /\ \E o \in OrdersBelow(TreeOf(d, wf, wh, wd), r) :
              srch = [stage |-> "call", tree |-> TreeOf(d, wf, wh, wd), ord |-> o,
                      show_hidden |-> sh, root |-> r, query |-> q, max_results |-> m,
                      results |-> <<>>, listed |-> {}]

RunSearch ==
    /\ srch.stage = "call"
    /\ LET out == search_files_recursive(srch.tree, srch.ord, srch.show_hidden, srch.root,
                                         srch.query, srch.max_results)
       IN srch' = [srch EXCEPT !.stage = "return", !.results = out.results,
                               !.listed = out.listed]
    /\ UNCHANGED mainVars
    /\ UNCHANGED <<lay, call>>

SpecSearch == SearchInit /\ [][RunSearch]_vars

(***************************************************************************)
(* SpecLayout: one call of draw_files on a directory, a selection, a       *)
(* previous offset, a clicked row and a screen drawn from bounded sets.    *)
(***************************************************************************)
LayoutListing(n) == [i \in 1..n |-> PlainEntry(<<96 + i>>)]

\* /w with the n entries of the listing, "a" a directory and the others files
\* of 7, 70 and 7000 bytes, and with the hidden file .h or without it
LayoutFs(n, hidden) ==
    LET names == {<<NW, <<96 + i>>>> : i \in 1..n} \cup (IF hidden THEN {<<NW, NH>>} ELSE {})
    IN [p \in {<<>>, <<NW>>} \cup names |->
          IF Len(p) < 2 \/ p = <<NW, NA>> THEN DIR
          ELSE IF p = <<NW, NB>> THEN 7
          ELSE IF p = <<NW, <<99>>>> THEN 70
          ELSE 7000]

LayoutInit ==
    /\ MainInit(Wide(MaxHeight), {}, Uniform(InitFs, 0), 0)
    /\ srch = SrchIdle
    /\ call = CallIdle
    /\ \E n \in 0..MaxLayoutLen, off \in 0..MaxLayoutLen, h \in 1..MaxHeight, w \in Widths,
          hidden \in BOOLEAN, sm \in BOOLEAN :
       \E idx \in 0..Max(0, n - 1) :
       \E clicked \in {-1, idx} :
         lay = [stage |-> "call", n |-> n, current_idx |-> idx, offset |-> off, h |-> h,
                w |-> w, hidden |-> hidden, search_mode |-> sm, clicked_idx |-> clicked,
                new_offset |-> 0, click_areas |-> NoClickAreas]

RunLayout ==
    /\ lay.stage = "call"
    /\ LET out == draw_files(LayoutFs(lay.n, lay.hidden), FALSE, lay.h, lay.w, <<NW>>,
                             LayoutListing(lay.n), lay.current_idx, lay.offset,
                             lay.search_mode, lay.clicked_idx)
       IN lay' = [lay EXCEPT !.stage = "return", !.new_offset = out.offset,
                             !.click_areas = out.click_areas]
    /\ UNCHANGED mainVars
    /\ UNCHANGED <<srch, call>>

SpecLayout == LayoutInit /\ [][RunLayout]_vars

(***************************************************************************)
(* SpecMenu: one call of show_context_menu on a screen of h rows and w     *)
(* columns, asked for at row y and column x and reading a sequence of      *)
(* keys.  A mouse key comes with the menu row the pointer is on.           *)
(***************************************************************************)
MenuKeySeqs == UNION {[1..n -> MenuKeys] : n \in 1..MaxMenuKeys}

MenuInit ==
    /\ MainInit(Wide(MaxHeight), {}, Uniform(InitFs, 0), 0)
    /\ srch = SrchIdle
    /\ lay = LayIdle
    /\ \E ks \in MenuKeySeqs, row \in 1..MenuOptions, h \in Heights, w \in {24, 80} :
       \E y \in {FirstRow, h \div 2}, x \in {0, w - 1} :
         call = [fn |-> "show_context_menu", stage |-> "call", h |-> h, w |-> w, y |-> y,
                 x |-> x, keys |-> ks, row |-> row,
                 exc |-> "none", closed |-> FALSE, action |-> "none", rest |-> 0]

RunMenu ==
    /\ call.fn = "show_context_menu"
    /\ call.stage = "call"
    /\ LET out == show_context_menu(call.h, call.w, call.y, call.x,
                                    [interrupted |-> FALSE, keys |-> call.keys])
       IN call' = [call EXCEPT !.stage = "return", !.exc = out.exc,
                               !.closed = out.closed,
                               !.action = out.action, !.rest = out.rest]
    /\ UNCHANGED mainVars
    /\ UNCHANGED <<srch, lay>>

SpecMenu == MenuInit /\ [][RunMenu]_vars

(***************************************************************************)
(* SpecPopup: one popup (text input, confirmation or action menu) opened   *)
(* on the terminal as main leaves it, h rows high and w columns wide, with *)
(* what it reads drawn from bounded sets; its effect on the cursor and     *)
(* echo settings.                                                          *)
(***************************************************************************)
\* the popup of a kind on a screen of h rows and w columns, with a prompt or a
\* message of 14 characters, the menu asked for in the middle of the screen
popup_terminal(kind, h, w, term, read) ==
    IF kind = "input"
    THEN [exc |-> get_input_popup(h, w, 14, term, read).exc,
          term |-> get_input_popup(h, w, 14, term, read).term]
    ELSE IF kind = "confirm"
    THEN [exc |-> confirm_popup(h, w, 14, read).exc, term |-> term]
    ELSE [exc |-> show_context_menu(h, w, h \div 2, w \div 2, read).exc, term |-> term]

\* the names of InputStrings, "é", the lone byte 0xFF, a cut-off "é", and "a" 0xFF
PopupBytes == InputStrings \cup {<<195, 169>>, <<255>>, <<195>>, <<97, 255>>}

PopupReads(kind) ==
    IF kind = "input"
    THEN {[interrupted |-> i, bytes |-> b] : i \in BOOLEAN, b \in PopupBytes}
    ELSE IF kind = "confirm"
    THEN {[interrupted |-> i, key |-> k] : i \in BOOLEAN, k \in ConfirmKeys}
    ELSE {[interrupted |-> i, keys |-> ks] : i \in BOOLEAN, ks \in MenuKeySeqs}

PopupInit ==
    /\ MainInit(Wide(MaxHeight), {}, Uniform(InitFs, 0), 0)
    /\ srch = SrchIdle
    /\ lay = LayIdle
    /\ \E kind \in {"input", "confirm", "menu"}, h \in Heights, w \in Widths :
       \E read \in PopupReads(kind) :
         call = [fn |-> "popup", stage |-> "call", kind |-> kind, h |-> h, w |-> w,
                 read |-> read, before |-> MainTerminal, after |-> MainTerminal,
                 exc |-> "none"]

RunPopup ==
    /\ call.fn = "popup"
    /\ call.stage = "call"
    /\ LET out == popup_terminal(call.kind, call.h, call.w, call.before, call.read)
       IN call' = [call EXCEPT !.stage = "return", !.after = out.term, !.exc = out.exc]
    /\ UNCHANGED mainVars
    /\ UNCHANGED <<srch, lay>>

SpecPopup == PopupInit /\ [][RunPopup]_vars

(***************************************************************************)
(* SpecListing: one call of list_dir on a directory whose entries, their   *)
(* kinds, the OS order and show_hidden are drawn from bounded sets.        *)
(***************************************************************************)
\* "B", "a", "ab", "b", ".c"
ListingNames == {<<66>>, <<97>>, <<97, 98>>, <<98>>, <<46, 99>>}

\* the directory tree whose root holds the names of dirs as directories and
\* the names of regular as files
ListingTree(dirs, regular) ==
    [q \in {<<>>} \cup {<<n>> : n \in dirs \cup regular} |->
        IF q = <<>> \/ q[1] \in dirs THEN DIR ELSE 1]

ListingInit ==
    /\ MainInit(Wide(MaxHeight), {}, Uniform(InitFs, 0), 0)
    /\ srch = SrchIdle
    /\ lay = LayIdle
    /\ \E dirs \in SUBSET ListingNames, sh \in BOOLEAN :
       \E regular \in SUBSET (ListingNames \ dirs) :
       \E k \in Ranks(Cardinality(dirs \cup regular)) :
         call = [fn |-> "list_dir", stage |-> "call", tree |-> ListingTree(dirs, regular),
                 ord |-> (<<>> :> k), show_hidden |-> sh,
                 result |-> <<>>]

RunListing ==
    /\ call.fn = "list_dir"
    /\ call.stage = "call"
    /\ call' = [call EXCEPT !.stage = "return",
                            !.result = list_dir(call.tree, call.ord, call.show_hidden, <<>>)]
    /\ UNCHANGED mainVars
    /\ UNCHANGED <<srch, lay>>

SpecListing == ListingInit /\ [][RunListing]_vars

(***************************************************************************)
(* SpecPreview: one call of get_preview on a directory whose numbers of    *)
(* visible and hidden entries, the OS order and show_hidden are drawn from *)
(* bounded sets.                                                           *)
(***************************************************************************)
\* get_preview on the directory p: the entries listed, and the footer
\* "... and N more items" with its N (lines 219-241)
get_preview(f, ord, sh, p) ==
    LET listing == list_dir(f, ord, sh, p)
        contents == SubSeq(listing, 1, Min(Len(listing), preview_max_lines))
        total_items == Len(listdir(f, ord, p))
    IN IF contents = <<>>
       THEN [contents |-> contents, footer |-> FALSE, more |-> 0]
       ELSE [contents |-> contents, footer |-> total_items > Len(contents),
             more |-> total_items - Len(contents)]

\* the names "aa", "ba", ..., "za", "ab", ... and ".a", ".b", ...

\* directories of no, one or two visible entries, and of about preview_max_lines
PreviewSizes == (0..2) \cup ((preview_max_lines - 1)..(preview_max_lines + MaxPreviewExtra))

PreviewInit ==
    /\ MainInit(Wide(MaxHeight), {}, Uniform(InitFs, 0), 0)
    /\ srch = SrchIdle
    /\ lay = LayIdle
    /\ \E n \in PreviewSizes, k \in 0..MaxPreviewHidden, o \in BrowseRanks, sh \in BOOLEAN :
         call = [fn |-> "get_preview", stage |-> "call",
                 tree |-> ListingTree({}, {<<97 + (i % 26), 97 + (i \div 26)>> : i \in 0..(n - 1)}
                                          \cup {<<CH_DOT, 96 + j>> : j \in 1..k}),
                 ord |-> (<<>> :> o), show_hidden |-> sh,
                 result |-> [contents |-> <<>>, footer |-> FALSE, more |-> 0]]

RunPreview ==
    /\ call.fn = "get_preview"
    /\ call.stage = "call"
    /\ call' = [call EXCEPT !.stage = "return",
                            !.result = get_preview(call.tree, call.ord, call.show_hidden, <<>>)]
    /\ UNCHANGED mainVars
    /\ UNCHANGED <<srch, lay>>

SpecPreview == PreviewInit /\ [][RunPreview]_vars

(***************************************************************************)
(* SpecSearchSteps: search_files_recursive run statement by statement on a *)
(* directory structure with symbolic links.  t.tree is the tree of real    *)
(* directories and files, t.links maps the path of each symbolic link to   *)
(* the real directory it points to.  call.stack is the chain of active     *)
(* search_in_dir calls, the innermost last, each with the entries its for  *)
(* loop has still to visit.  Every real directory is enumerated in each of *)
(* the orders of its names, links included, one apart from another.        *)
(***************************************************************************)
\* the real path of cur/comps, every symbolic link on the way followed
RECURSIVE RealPath(_, _, _)
RealPath(t, cur, comps) ==
    IF comps = <<>> THEN cur
    ELSE LET n == Append(cur, Head(comps))
         IN RealPath(t, IF n \in DOMAIN t.links THEN t.links[n] ELSE n, Tail(comps))

\* os.path.isdir(p), which follows symbolic links
isdir(t, p) == IsDir(t.tree, RealPath(t, <<>>, p))

\* os.listdir(p): the entries of the real directory, its symbolic links included
oslistdir(t, ord, p) ==
    LET real == RealPath(t, <<>>, p)
        names == ChildNames(t.tree, real)
                 \cup {l[Len(l)] : l \in {q \in DOMAIN t.links : Parent(q) = real}}
    IN Arrangement(Sorted(names), IF real \in DOMAIN ord THEN ord[real] ELSE 0)

\* A chain of d directories a/a/.../a with the file c in the last one and,
\* when up, the link "l" in the last one to the root; when self, the link "m" in
\* the root to the root itself.
LinkedTree(d, up, self) ==
    [tree |-> TreeOf(d, FALSE, FALSE, FALSE),
     links |-> [q \in (IF up THEN {Append(Chain(d), <<108>>)} ELSE {})
                      \cup (IF self THEN {<<<<109>>>>} ELSE {}) |-> <<>>]]

StepsInit ==
    /\ MainInit(Wide(MaxHeight), {}, Uniform(InitFs, 0), 0)
    /\ srch = SrchIdle
    /\ lay = LayIdle
    /\ \E d \in 0..MaxLinkChain, up \in BOOLEAN, self \in BOOLEAN,
          q \in {<<>>, <<66>>, <<99>>}, m \in {0, 1, default_max_results} :
       \E o \in Orders([p \in {Chain(k) : k \in 0..d} |->
                           Len(oslistdir(LinkedTree(d, up, self), <<>>, p))]) :
         call = [fn |-> "search_files_recursive", stage |-> "call",
                 t |-> LinkedTree(d, up, self),
                 ord |-> o,
                 show_hidden |-> FALSE,
                 query_lower |-> Lower(q), max_results |-> m,
                 stack |-> <<>>, results |-> <<>>, deepest |-> 0]

\* the call search_in_dir(current_path, relative_path, depth) made with the
\* stack of callers below it: lines 168-172
EnterDir(c, below, current_path, relative_path, depth, results) ==
    IF CapReached(results, c.max_results) \/ TooDeep(depth)
    THEN [c EXCEPT !.stack = below, !.results = results]
    ELSE IF Len(below) >= RecursionLimit
    THEN [c EXCEPT !.stage = "recursion_error", !.results = results]
    ELSE [c EXCEPT !.stack = Append(below, [entries |-> oslistdir(c.t, c.ord, current_path),
                                            current_path |-> current_path,
                                            relative_path |-> relative_path,
                                            depth |-> depth]),
                   !.results = results,
                   !.deepest = Max(@, depth)]

\* line 192: search_in_dir(root_path)
StartSearch ==
    /\ call.fn = "search_files_recursive"
    /\ call.stage = "call"
    /\ call' = EnterDir([call EXCEPT !.stage = "run"], <<>>, <<>>, <<>>, 0, <<>>)
    /\ UNCHANGED mainVars
    /\ UNCHANGED <<srch, lay>>

\* one turn of the for loop of the innermost search_in_dir (lines 173-187), its
\* return when the loop is over, or line 193 when no call is left
StepSearch ==
    /\ call.fn = "search_files_recursive"
    /\ call.stage = "run"
    /\ IF call.stack = <<>>
       THEN call' = [call EXCEPT !.stage = "return"]
       ELSE LET fr == call.stack[Len(call.stack)]
                below == SubSeq(call.stack, 1, Len(call.stack) - 1)
            IN IF fr.entries = <<>> \/ CapReached(call.results, call.max_results)
               THEN call' = [call EXCEPT !.stack = below]
               ELSE LET entry == Head(fr.entries)
                        rest == Append(below, [fr EXCEPT !.entries = Tail(@)])
                        full_path == Append(fr.current_path, entry)
                        display_path == Append(fr.relative_path, entry)
                        results == IF Contains(Lower(entry), call.query_lower)
                                   THEN Append(call.results, TupleEntry(display_path, full_path))
                                   ELSE call.results
                    IN IF ~call.show_hidden /\ StartsWithDot(entry)
                       THEN call' = [call EXCEPT !.stack = rest]
                       ELSE IF isdir(call.t, full_path)
                       THEN call' = EnterDir(call, rest, full_path, display_path,
                                             fr.depth + 1, results)
                       ELSE call' = [call EXCEPT !.stack = rest, !.results = results]
    /\ UNCHANGED mainVars
    /\ UNCHANGED <<srch, lay>>

NextSteps == StartSearch \/ StepSearch

\* the interpreter runs the call on: every statement that can be executed is
SpecSearchSteps == StepsInit /\ [][NextSteps]_vars /\ WF_vars(NextSteps)

(***************************************************************************)
(* Properties.                                                             *)
(***************************************************************************)
\* the offset of the frame on screen, had it been laid out from selection 0 and
\* offset 0
OffsetFromTop ==
    draw_files(fs, show_hidden, term_h, term_w, path, files, 0, 0, search_mode,
               clicked_idx).offset

InRange(idx, fl) == idx >= 0 /\ idx <= Max(0, Len(fl) - 1)

\* C1: in every state reached by key and mouse events, a rename by F2
\* included, selection_index is within [0, max(0, len(entries)-1)] at the
\* start of the next frame, so entries[selection_index] is never out of range.
C1_SelectionInRange == InRange(current_idx, files) /\ pc # "crash"

viewport_height(h) == h - PaneMargin

\* C2: after draw_files of a non-empty listing with the selection in range,
\* offset <= selection_index < offset + viewport_height, for every previous
\* offset, whenever len(entries) >= viewport_height; read for a pane of one row
\* or more (terminal height 5 or more), where an offset can meet it.
C2_ViewportInvariant ==
    (/\ lay.stage = "return"
     /\ lay.n > 0
     /\ lay.n >= viewport_height(lay.h)
     /\ viewport_height(lay.h) >= 1)
    => /\ lay.new_offset <= lay.current_idx
       /\ lay.current_idx < lay.new_offset + viewport_height(lay.h)

\* C3: for every tree, query and max_results, search_files_recursive returns
\* at most max_results entries.
C3_AtMostMaxResults ==
    srch.stage = "return" => Len(srch.results) <= srch.max_results

\* a search cut short by the cap: max_results entries returned, more to be found
C3_Witness ==
    /\ srch.stage = "return"
    /\ srch.max_results > 0
    /\ Len(srch.results) = srch.max_results
    /\ Len(search_files_recursive(srch.tree, srch.ord, srch.show_hidden, srch.root,
                                  srch.query, default_max_results).results)
         > srch.max_results

DepthBelow(root_path, p) == Len(p) - Len(root_path)

\* C4: with the search root at depth 0, no directory deeper than
\* search_max_depth has its contents listed, and no result lies deeper than
\* an entry of a directory at depth search_max_depth.
C4_DepthBounded ==
    srch.stage = "return"
    => /\ \A p \in srch.listed : /\ IsPrefix(srch.root, p)
                                 /\ DepthBelow(srch.root, p) <= search_max_depth
       /\ \A i \in 1..Len(srch.results) :
            /\ Len(srch.results[i].display) <= search_max_depth + 1
            /\ DepthBelow(srch.root, srch.results[i].full) <= search_max_depth + 1

\* a search that listed a directory at depth search_max_depth and left alone
\* the directory inside it, with room left in the results
C4_Witness ==
    /\ srch.stage = "return"
    /\ Len(srch.results) < srch.max_results
    /\ \E p \in srch.listed :
         /\ DepthBelow(srch.root, p) = search_max_depth
         /\ IsDir(srch.tree, Append(p, NA))
         /\ Append(p, NA) \notin srch.listed
         /\ Contains(Lower(NA), Lower(srch.query))

\* the paths a step removes from the filesystem
Lost == {p \in DOMAIN fs : p \notin DOMAIN fs'}

\* C5: nothing is deleted unless a confirmation popup was shown for that entry
\* and the one key it read was 'y', on the 'd' path and on the context-menu
\* path alike; with any other key the filesystem and the browser state are as
\* they were (a right click has selected the row it was made on).
C5_DeleteOnlyConfirmed ==
    [][/\ (Lost # {} /\ ~ev'.input_shown)
          => /\ ev'.confirm_key = 121
             /\ ev'.key = 100 \/ ev'.menu = "delete"
             /\ \A p \in Lost : IsPrefix(ev'.target, p)
       /\ (ev'.confirm_key \notin {-1, 121})
          => /\ fs' = fs
             /\ <<path, files, all_files, search_results, show_hidden>>'
                  = <<path, files, all_files, search_results, show_hidden>>
             /\ <<search_mode, search_query, offset>>' = <<search_mode, search_query, offset>>
             /\ current_idx' = IF ev'.button = "none" THEN current_idx
                               ELSE click_areas[ev'.y]
             /\ pc' = "run"]_vars

\* an entry deleted from the context menu after 'y'
C5_Witness ==
    /\ ev.menu = "delete"
    /\ ev.confirm_key = 121
    /\ ev.ok
    /\ ~Exists(fs, ev.target)

\* C6: in Search mode, when Backspace removes the last character of the
\* query, the listing becomes the listing snapshotted when '/' was pressed,
\* same entries in the same order, whatever edits and wheel events came between.
C6_BackspaceRestoresSnapshot ==
    (ev.in_search /\ ev.key \in BackspaceKeys /\ Len(ev.prev_query) = 1)
    => /\ search_mode
       /\ search_query = <<>>
       /\ files = pre_search

\* Backspace has emptied a query of one character over a listing of two entries
C6_Witness ==
    /\ ev.in_search
    /\ ev.key \in BackspaceKeys
    /\ Len(ev.prev_query) = 1
    /\ Len(pre_search) >= 2
    /\ files = pre_search

\* C7: Escape in Search mode returns to Normal mode with the query cleared and
\* the listing equal to the snapshot taken when '/' was pressed.
C7_EscapeRestoresSnapshot ==
    (ev.in_search /\ ev.key = KEY_ESC)
    => /\ ~search_mode
       /\ search_query = <<>>
       /\ files = pre_search

\* Escape has ended a session in which a query was typed
C7_Witness ==
    /\ ev.in_search
    /\ ev.key = KEY_ESC
    /\ ev.prev_query # <<>>
    /\ ~search_mode
    /\ Len(pre_search) >= 2
    /\ files = pre_search

\* C8: Enter in Search mode switches to Normal mode and the listing after it
\* is the listing displayed just before, for every prior sequence of events.
C8_EnterKeepsListing ==
    [][(search_mode /\ ev'.in_search /\ ev'.key \in EnterKeys)
       => (~search_mode' /\ files' = files)]_vars

\* the typed name, when it names an entry of the renamed entry's directory other
\* than the entry itself
NamesAnother(typed, target) ==
    LET new_name == input_text(term_w, typed)
    IN /\ new_name # <<>>
       /\ \A i \in 1..Len(new_name) : new_name[i] # CH_SLASH
       /\ Append(Parent(target), new_name) # target
       /\ Exists(fs, Append(Parent(target), new_name))

\* C9: renaming the selected entry by F2 to a name that already exists in the
\* directory fails: the filesystem and the listing are as before.
C9_RenameToExistingFails ==
    [][(ev'.key = KEY_F2 /\ ev'.input_shown /\ NamesAnother(ev'.typed, ev'.target))
       => (fs' = fs /\ files' = files)]_vars

\* C10: after 'n' created a file of a non-hidden name the listing of the
\* current directory includes the name; after the file is then deleted with
\* 'd' and 'y' the listing no longer includes it and is the listing before
\* the create.
C10_CreateDeleteRoundTrip ==
    (/\ created.stage # "none"
     /\ ~StartsWithDot(created.name)
     /\ \A i \in 1..Len(created.name) : created.name[i] # CH_SLASH)
    => /\ created.stage = "created" => PlainEntry(created.name) \in SeqToSet(files)
       /\ created.stage = "deleted" => /\ PlainEntry(created.name) \notin SeqToSet(files)
                                       /\ files = created.before

\* the typed name, when it names an entry the current directory already has
NameTaken(typed) ==
    LET name == input_text(term_w, typed)
    IN /\ name # <<>>
       /\ \A i \in 1..Len(name) : name[i] # CH_SLASH
       /\ Exists(fs, Append(path, name))

\* C11: creating a file ('n') or a directory ('m') under a name the directory
\* already has fails: the operation reports failure and the filesystem, the
\* content of an existing file included, is as before.
C11_CreateExistingFails ==
    [][(ev'.key \in {110, 109} /\ ev'.input_shown /\ NameTaken(ev'.typed))
       => (~ev'.ok /\ fs' = fs)]_vars

MenuReturned ==
    call.fn = "show_context_menu" /\ call.stage = "return" /\ call.exc = "none"

\* the cancel key or a numeric key
Decisive(k) == k.key = KEY_ESC \/ k.key \in 48..57

\* the key at i is the first the menu reads that is not a click inside it
FirstKey(i) ==
    /\ i \in 1..Len(call.keys)
    /\ \A j \in 1..(i - 1) : call.keys[j].key = KEY_MOUSE /\ call.keys[j].inside

\* C12: the menu returns the option whose index key was pressed, and returns
\* none on the cancel key or on a numeric key outside 1..number of options;
\* it is closed once it has read such a key.
C12_MenuClosesOnKey ==
    MenuReturned
    => \A i \in 1..Len(call.keys) :
         (FirstKey(i) /\ Decisive(call.keys[i]))
         => /\ call.closed
            /\ call.rest = Len(call.keys) - i
            /\ call.action = IF call.keys[i].key - 49 \in 0..(MenuOptions - 1)
                             THEN MenuActions[call.keys[i].key - 48]
                             ELSE "none"

\* C13: a click inside the menu on the row of an option selects that option,
\* as the option's digit key does.
C13_MenuClickSelects ==
    (MenuReturned /\ call.keys[1].key = KEY_MOUSE /\ call.keys[1].inside)
    => /\ call.closed
       /\ call.rest = Len(call.keys) - 1
       /\ call.action = menu_loop(<<[key |-> 48 + call.row, inside |-> FALSE]>>).action

\* C14: in Normal mode a press of button 1 on a mapped row whose entry is a
\* directory, less than 500 ms after a press on the same entry, changes the
\* directory to it, reloads the listing and draws it from selection 0 and
\* offset 0; a press on another entry, or 500 ms or more after the last one,
\* only selects.
C14_DoubleClickEnters ==
    [][\A y \in DOMAIN click_areas, dt \in Dts :
         Button1On(y, dt)
         => LET idx == click_areas[y]
                full_path == FullPathOf(path, files, idx)
            IN IF /\ last_click_age + dt < DoubleClickTicks
                  /\ idx = last_click_idx
                  /\ IsDir(fs, full_path)
               THEN /\ path' = full_path
                    /\ files' = Plain(list_dir(fs, listdir_order, show_hidden, full_path))
                    /\ current_idx' = 0
                    /\ offset' = OffsetFromTop'
               ELSE /\ path' = path
                    /\ files' = files
                    /\ current_idx' = idx]_vars

\* a double click has entered the directory a
C14_Witness ==
    /\ path = <<NW, NA>>
    /\ last_click_age = 0
    /\ current_idx = 0
    /\ files = Plain(list_dir(fs, listdir_order, show_hidden, path))

\* C19: a press of button 1 on a row the frame's click-region map assigns to
\* an entry selects that entry, in Normal mode and in Search mode alike.
C19_PressSelects ==
    [][\A y \in DOMAIN click_areas, dt \in Dts :
         (Button1On(y, dt) \/ MouseIgnoredOn("b1", y, dt))
         => (path' = path => current_idx' = click_areas[y])]_vars

\* no component of the entry's displayed path begins with '.'
NoDotName(e) == \A i \in 1..Len(e.display) : ~StartsWithDot(e.display[i])

\* C15: with show_hidden false no entry of the listing, directory listing or
\* search result, has a name (or a component of its display path) beginning
\* with '.'; when 'h' sets the flag back to true the listing is the listing of
\* the same directory with its dot-entries.
C15_ListingAgreesWithHidden ==
    /\ [](~show_hidden => \A i \in 1..Len(files) : NoDotName(files[i]))
    /\ [][(~show_hidden /\ show_hidden')
          => /\ path' = path
             /\ files' = Plain(list_dir(fs, listdir_order, TRUE, path))]_vars

\* the names list_dir is to return: those of the directory, less the dot-names
\* when show_hidden is false
Shown(f, sh, p) == {n \in ChildNames(f, p) : sh \/ ~StartsWithDot(n)}

\* C16: list_dir with sort_dirs_first returns a permutation of the
\* hidden-filtered entries in which every directory precedes every
\* non-directory and each of the two groups is in ascending name order.
C16_DirsFirstSorted ==
    (call.fn = "list_dir" /\ call.stage = "return")
    => LET r == call.result
           dir(i) == IsDir(call.tree, <<r[i]>>)
       IN /\ SeqToSet(r) = Shown(call.tree, call.show_hidden, <<>>)
          /\ Len(r) = Cardinality(Shown(call.tree, call.show_hidden, <<>>))
          /\ \A i, j \in 1..Len(r) :
               i < j => /\ dir(j) => dir(i)
                        /\ dir(i) = dir(j) => StrLess(r[i], r[j])

\* a listing of two directories and two files, with a hidden entry left out
\* and a file whose name sorts before a directory's
C16_Witness ==
    /\ call.fn = "list_dir"
    /\ call.stage = "return"
    /\ ~call.show_hidden
    /\ call.result = <<<<97>>, <<98>>, <<66>>, <<97, 98>>>>
    /\ <<46, 99>> \in ChildNames(call.tree, <<>>)
    /\ listdir(call.tree, call.ord, <<>>) # Sorted(ChildNames(call.tree, <<>>))

\* the event e is a create, a rename or a delete requested from the keyboard
\* that reached the filesystem and failed there
FailedRequest(e) ==
    /\ ~e.ok
    /\ e.menu = "none"
    /\ \/ /\ e.key \in {110, 109, KEY_F2}
          /\ e.input_shown
          /\ input_text(term_w, e.typed) # <<>>
       \/ /\ e.key = 100
          /\ confirm_popup(term_h, term_w, 22 + Len(e.target[Len(e.target)]),
                           [interrupted |-> FALSE, key |-> e.confirm_key]).yes

\* C17: when a create, rename or delete requested from the keyboard fails,
\* current_directory, entries, selection_index, scroll_offset, mode and query
\* (and the filesystem) are as before and the event loop goes on.
C17_FailureIsSilent ==
    [][FailedRequest(ev')
       => /\ <<path, files, all_files, current_idx, offset>>'
               = <<path, files, all_files, current_idx, offset>>
          /\ <<search_mode, search_query, fs>>' = <<search_mode, search_query, fs>>
          /\ pc' = "run"]_vars

\* 'd' confirmed on an entry of the listing that is no longer on disk
C17_Witness ==
    /\ ev.key = 100
    /\ FailedRequest(ev)
    /\ ~Exists(fs, ev.target)
    /\ pc = "run"

\* C20: after a rename or a delete chosen from the context menu (Space or
\* button 3) succeeded, the listing is the reloaded listing of the current
\* directory, as after F2 or 'd', and holds no entry for the path that was
\* deleted or renamed away.
C20_MenuOperationReloads ==
    (ev.menu \in {"rename", "delete"} /\ ev.ok)
    => /\ files = Plain(list_dir(fs, listdir_order, show_hidden, path))
       /\ ~Exists(fs, ev.target)
          => \A i \in 1..Len(files) : FullPathOf(path, files, i - 1) # ev.target

\* C18: every popup (text input, confirmation, action menu) leaves the
\* cursor-visibility and echo settings as they were before it opened, on every
\* way it can terminate, a read or a decode that raises included.
C18_PopupRestoresTerminal ==
    (call.fn = "popup" /\ call.stage = "return") => call.after = call.before

\* the letters a and b are the same but for their case
SameLetter(a, b) ==
    \/ a = b
    \/ a \in 65..90 /\ b = a + 32
    \/ a \in 97..122 /\ b = a - 32

\* the basename holds the query as a substring, case ignored
MatchesQuery(basename, query) ==
    \E i \in 0..(Len(basename) - Len(query)) :
      \A k \in 1..Len(query) : SameLetter(basename[i + k], query[k])

RECURSIVE PreOrder(_, _, _, _, _, _)
RECURSIVE PreOrderOver(_, _, _, _, _, _, _)

\* the entries of the directory dir, depth levels below the root, and of the
\* directories under it, each directory before its descendants, with no cap
\* and no regard to the query
PreOrder(f, ord, sh, dir, rel, depth) ==
    IF depth > search_max_depth THEN <<>>
    ELSE PreOrderOver(f, ord, sh, listdir(f, ord, dir), dir, rel, depth)

PreOrderOver(f, ord, sh, entries, dir, rel, depth) ==
    IF entries = <<>> THEN <<>>
    ELSE LET e == Head(entries)
             rest == PreOrderOver(f, ord, sh, Tail(entries), dir, rel, depth)
         IN IF ~sh /\ e[1] = CH_DOT THEN rest
            ELSE <<[tuple |-> TRUE, display |-> rel \o <<e>>, full |-> dir \o <<e>>]>>
                 \o (IF IsDir(f, dir \o <<e>>)
                     THEN PreOrder(f, ord, sh, dir \o <<e>>, rel \o <<e>>, depth + 1)
                     ELSE <<>>)
                 \o rest

\* the reference sequence of a search
ReferenceSearch(f, ord, sh, root_path, query, max_results) ==
    LET all == PreOrder(f, ord, sh, root_path, <<>>, 0)
        matching == SelectSeq(all, LAMBDA r : MatchesQuery(r.display[Len(r.display)], query))
    IN SubSeq(matching, 1, Min(Len(matching), max_results))

\* C21: for every tree, query and max_results, the result of
\* search_files_recursive is the reference sequence: the pre-order depth-first
\* traversal (a directory before its descendants, traversed whether or not it
\* matched) of the entries within the depth bound that show_hidden lets
\* through, keeping those whose basename contains the query case-insensitively,
\* cut to the first max_results; each result pairs the path relative to the
\* root with the full path.
C21_SearchIsReference ==
    srch.stage = "return"
    => srch.results = ReferenceSearch(srch.tree, srch.ord, srch.show_hidden, srch.root,
                                      srch.query, srch.max_results)

\* a search from the directory a for "B" that recorded the file Ab of the root
\* before the Ab of the directory below, passed through a directory that did
\* not match, left a hidden directory out and stopped at the cap
C21_Witness ==
    /\ srch.stage = "return"
    /\ srch.root = <<NA>>
    /\ srch.query = <<66>>
    /\ srch.max_results = 2
    /\ ~srch.show_hidden
    /\ Len(srch.results) = 2
    /\ srch.results[1] = TupleEntry(<<NBig>>, <<NA, NBig>>)
    /\ srch.results[2] = TupleEntry(<<NA, NBig>>, <<NA, NA, NBig>>)
    /\ IsDir(srch.tree, <<NA, NA, NA>>)

\* C22: in Search mode, after every event, the listing is determined by the
\* query alone: with a non-empty query it is the search of the current
\* directory for that query run in full, with an empty query it is the listing
\* snapshotted when '/' was pressed; and every change of the query leaves
\* selection 0 and has the next frame laid out from offset 0.
C22_ListingFollowsQuery ==
    /\ [](search_mode
          => files = IF search_query # <<>>
                     THEN ReferenceSearch(fs, listdir_order, show_hidden, path, search_query,
                                          default_max_results)
                     ELSE pre_search)
    /\ [][(search_mode /\ search_mode' /\ search_query' # search_query)
          => /\ current_idx' = 0
             /\ offset' = OffsetFromTop']_vars

\* a second character typed after the selection was moved down the results of
\* the first: the listing is the search for both
C22_Witness ==
    /\ search_mode
    /\ ev.in_search
    /\ ev.key = 65
    /\ ev.prev_query = <<65>>
    /\ search_query = <<65, 65>>
    /\ search_results = <<>>
    /\ pre_search # <<>>
    /\ current_idx = 0

\* C23: Enter on the selected entry in Normal mode and a double click on that
\* entry have the same effect: both enter it if it is a directory and both
\* open it if it is a file.
C23_EnterIsDoubleClick ==
    (Running /\ ~search_mode /\ HasCurrent(files, current_idx))
    => \A dt \in Dts :
         LET e == activate_enter(Cur(dt))
             d == activate_double_click(Cur(dt), FullPathOf(path, files, current_idx))
         IN /\ e.opened = d.opened
            /\ e.locals.path = d.locals.path
            /\ e.locals.files = d.locals.files
            /\ e.locals.current_idx = d.locals.current_idx
            /\ e.locals.offset = d.locals.offset

\* C24: in the preview of a directory the footer '... and N more items' is
\* there if and only if the listing shown was cut to preview_max_lines
\* entries, and N is the number of listed entries the cut left out; a
\* directory whose visible entries all fit has no footer, whatever hidden
\* entries it holds while show_hidden is false.
C24_FooterIffTruncated ==
    (call.fn = "get_preview" /\ call.stage = "return")
    => LET listed == Len(list_dir(call.tree, call.ord, call.show_hidden, <<>>))
       IN /\ call.result.footer <=> listed > preview_max_lines
          /\ call.result.footer => call.result.more = listed - preview_max_lines

\* C25: while the mode is Search no event changes the current directory,
\* changes the filesystem, opens a popup or quits: the action keys q, d, n, m,
\* b, h, r, o, Space and ? are appended to the query, presses of button 1 and
\* of button 3 change nothing, and the mode is left by Escape and Enter only.
C25_SearchModeIsClosed ==
    [][search_mode
       => /\ path' = path
          /\ fs' = fs
          /\ pc' # "quit"
          /\ ev'.menu = "none" /\ ~ev'.input_shown /\ ev'.confirm_key = -1
          /\ ev'.key \in ActionKeys
             => (search_mode' /\ search_query' = Append(search_query, ev'.key))
          /\ ~search_mode' => ev'.key \in {KEY_ESC} \cup EnterKeys
          /\ \A b \in {"b1", "b3"}, y \in 0..(term_h - 1), dt \in Dts :
               MouseIgnoredOn(b, y, dt)
               => UNCHANGED <<files, current_idx, search_mode, search_query,
                              last_click_idx>>]_vars

\* 'd' typed into the query with an entry selected and a filesystem mutation
\* still allowed: nothing was deleted and the loop runs
C25_Witness ==
    /\ search_mode
    /\ search_query = <<100>>
    /\ ev.in_search
    /\ ev.key = 100
    /\ ops_left > 0
    /\ pre_search # <<>>
    /\ fs = InitFs
    /\ pc = "run"

\* C26: double-click state does not carry across a change of listing: a press
\* of button 1 that comes right after a double click entered a directory,
\* on whatever row and however soon, is no second press of a double click;
\* it selects the entry of the new listing and activates nothing.
C26_PressAfterEnteringSelects ==
    [][\A y \in DOMAIN click_areas, dt \in Dts :
         (ev.entered /\ Button1On(y, dt))
         => /\ ~IsDoubleClick(Age(dt), click_areas[y], last_click_idx)
            /\ path' = path
            /\ files' = files
            /\ current_idx' = click_areas[y]]_vars

\* C27: search_files_recursive returns on every finite directory structure,
\* one whose symbolic links form a cycle included: every call made eventually
\* returns, however small or large max_results and whatever the query.
C27_SearchTerminates ==
    (call.fn = "search_files_recursive") ~> (call.stage = "return")

\* a search that matched nothing on a structure whose links form a cycle has
\* returned, after it went down to depth search_max_depth through the links
C27_Witness ==
    /\ call.fn = "search_files_recursive"
    /\ call.stage = "return"
    /\ call.t.links # <<>>
    /\ call.max_results = default_max_results
    /\ call.results = <<>>
    /\ call.deepest = search_max_depth

====
